---- MODULE Spec2Model ----
(***************************************************************************)
(* A model of the sliding-window sender (cmd/client/new_client.go), the    *)
(* gap-tracking receiver (cmd/server/server1.go, cmd/server/main.go) and   *)
(* the protocol package's sequence arithmetic (the Go text in README.md).  *)
(*                                                                         *)
(* Time is counted in units of 50 ms: retransmitAfter (100 ms) is 2.       *)
(* rand.Float64() and dropProbability are counted in hundredths.           *)
(***************************************************************************)
EXTENDS Integers, Sequences, FiniteSets, TLC

VARIABLES
    cfg,            \* the const block of new_client.go / server1.go, per run
    client,         \* the Client struct of new_client.go
    mu,             \* client.mu: "free", "main" or "acks"
    mainPc,         \* where main's control loop stands
    outBatch,       \* the line the control loop is about to write
    ackPc,          \* where the ACK-reading goroutine stands
    ackLine,        \* the line the ACK-reading goroutine has scanned
    now,            \* the clock
    c2s,            \* lines in flight, client to server
    s2c,            \* lines in flight, server to client
    clientClosed,   \* the client's end of conn is closed
    serverClosed,   \* the server's end of conn is closed
    tracker,        \* the SimpleTracker of one connection
    recvPc,         \* where handleConnection stands
    recvLine,       \* the line handleConnection has scanned
    written,        \* history: sequence number -> times the sender wrote it
    acked,          \* history: numeric ACK tokens processAcks has handled
    lastTick,       \* history: what the send or retransmission tick just taken did
    fed,            \* history: the arguments of the recordPacket calls
    trackerBefore,  \* history: the tracker before the last recordPacket
    fnIn,           \* argument of the function under test
    fnOut           \* its result, -1 before the call

vars == <<cfg, client, mu, mainPc, outBatch, ackPc, ackLine, now, c2s, s2c,
          clientClosed, serverClosed, tracker, recvPc, recvLine, written,
          acked, lastTick, fed, trackerBefore, fnIn, fnOut>>

senderVars == <<cfg, client, mu, mainPc, outBatch, ackPc, ackLine, now, c2s,
                s2c, clientClosed, serverClosed, recvPc, recvLine, written,
                acked, lastTick>>

(***************************************************************************)
(* Bounds of the model.                                                    *)
(***************************************************************************)
\* recordPacket calls fed to a tracker on its own
MaxCalls == 4

(***************************************************************************)
(* Program constants.                                                      *)
(***************************************************************************)
maxSequenceNumber == 65536

\* the protocol package's constant: 65535, commented "2^16"
MaxSequenceNumber == 65535

\* a uint16 holds 0 .. 65535
Uint16 == 0 .. 65535

\* sequence numbers fed to a tracker on its own: both ends of the space,
\* both sides of the half-range boundary, and the run 10, 15
SeqSamples == {0, 1, 10, 15, 32767, 32768, 32778, 65534, 65535}

(***************************************************************************)
(* protocol.IncrementSeq: uint16 arithmetic, then % MaxSequenceNumber.     *)
(***************************************************************************)
IncrementSeq(seq) == ((seq + 1) % 65536) % MaxSequenceNumber

(***************************************************************************)
(* SimpleTracker (server1.go; main.go holds the same text).               *)
(***************************************************************************)
newSimpleTracker ==
    [lastSeq |-> -1, wrapCount |-> 0, receivedCount |-> 0,
     missingCount |-> 0, lastGap |-> 0]

\* AdjustedGap that folds only the far-negative side
AdjustedGapOneSided(seq, lastSeq) ==
    LET gap == seq - lastSeq
    IN  IF gap < -(maxSequenceNumber \div 2) THEN gap + maxSequenceNumber ELSE gap

\* AdjustedGap without the wrap-around adjustment
AdjustedGapNoFold(seq, lastSeq) == seq - lastSeq

\* the gap after the wrap-around adjustment of recordPacket
AdjustedGap(seq, lastSeq) ==
    LET gap == seq - lastSeq
    IN  IF gap < -(maxSequenceNumber \div 2) THEN gap + maxSequenceNumber
        ELSE IF gap > (maxSequenceNumber \div 2) THEN gap - maxSequenceNumber
        ELSE gap

\* ForwardWrap with the count moved to the other branch of the adjustment
ForwardWrapMisplaced(seq, lastSeq) == seq - lastSeq > (maxSequenceNumber \div 2)

\* the branch of the adjustment that counts a forward wrap
ForwardWrap(seq, lastSeq) == seq - lastSeq < -(maxSequenceNumber \div 2)

\* recordPacket without the gap > 0 test around the missing count
recordPacketUnguarded(st, seq) ==
    IF st.lastSeq = -1
    THEN [st EXCEPT !.lastSeq = seq, !.receivedCount = @ + 1]
    ELSE LET gap == AdjustedGap(seq, st.lastSeq)
         IN  [lastSeq       |-> IF gap > 0 THEN seq ELSE st.lastSeq,
              wrapCount     |-> IF ForwardWrap(seq, st.lastSeq)
                                THEN st.wrapCount + 1 ELSE st.wrapCount,
              receivedCount |-> st.receivedCount + 1,
              missingCount  |-> st.missingCount + (gap - 1),
              lastGap       |-> gap]

\* recordPacket that always moves lastSeq, as handleSequence of part_002 does
recordPacketAlwaysMoves(st, seq) ==
    IF st.lastSeq = -1
    THEN [st EXCEPT !.lastSeq = seq, !.receivedCount = @ + 1]
    ELSE LET gap == AdjustedGap(seq, st.lastSeq)
         IN  [lastSeq       |-> seq,
              wrapCount     |-> IF ForwardWrap(seq, st.lastSeq)
                                THEN st.wrapCount + 1 ELSE st.wrapCount,
              receivedCount |-> st.receivedCount + 1,
              missingCount  |-> IF gap > 0 THEN st.missingCount + (gap - 1)
                                ELSE st.missingCount,
              lastGap       |-> gap]

\* recordPacket that counts the whole gap as missing
recordPacketGapInclusive(st, seq) ==
    IF st.lastSeq = -1
    THEN [st EXCEPT !.lastSeq = seq, !.receivedCount = @ + 1]
    ELSE LET gap == AdjustedGap(seq, st.lastSeq)
         IN  [lastSeq       |-> IF gap > 0 THEN seq ELSE st.lastSeq,
              wrapCount     |-> IF ForwardWrap(seq, st.lastSeq)
                                THEN st.wrapCount + 1 ELSE st.wrapCount,
              receivedCount |-> st.receivedCount + 1,
              missingCount  |-> IF gap > 0 THEN st.missingCount + gap
                                ELSE st.missingCount,
              lastGap       |-> gap]

recordPacket(st, seq) ==
    IF st.lastSeq = -1
    THEN [st EXCEPT !.lastSeq = seq, !.receivedCount = @ + 1]
    ELSE LET gap == AdjustedGap(seq, st.lastSeq)
         IN  [lastSeq       |-> IF gap > 0 THEN seq ELSE st.lastSeq,
              wrapCount     |-> IF ForwardWrap(seq, st.lastSeq)
                                THEN st.wrapCount + 1 ELSE st.wrapCount,
              receivedCount |-> st.receivedCount + 1,
              missingCount  |-> IF gap > 0 THEN st.missingCount + (gap - 1)
                                ELSE st.missingCount,
              lastGap       |-> gap]

\* SimpleTracker.goodput as the pair <<numerator, denominator>>; <<0, 1>> is 0.0
goodput(st) ==
    LET totalPackets == st.receivedCount + st.missingCount
    IN  IF totalPackets <= 0 THEN <<0, 1>> ELSE <<st.receivedCount, totalPackets>>

(***************************************************************************)
(* The const block of new_client.go, read from the run's configuration.    *)
(* The program's own values are 10, 1000, 0.01 and 500_000; server1.go's   *)
(* targetPackets is 50_000.                                                *)
(***************************************************************************)
minWindowSize == cfg.minWindowSize
maxWindowSize == cfg.maxWindowSize
dropProbability == cfg.dropProbability
targetPackets == cfg.targetPackets
serverTargetPackets == cfg.serverTargetPackets

\* retransmitAfter = 100 * time.Millisecond, in units of 50 ms
retransmitAfter == 2

\* the 100*time.Millisecond of adjustWindow, in units of 50 ms
ackRegularWithin == 2

\* values rand.Float64() can return, in hundredths: exactly 0.0, exactly
\* 0.01 and a value near 1; cfg.randSamples are those it returns in a run
RandSamples == {0, 1, 99}

min(a, b) == IF a < b THEN a ELSE b
max(a, b) == IF a > b THEN a ELSE b

(***************************************************************************)
(* Lines and tokens.  A line is a sequence of tokens; a token is a decimal *)
(* number ("num"), a number with blanks around it ("padded") or any other  *)
(* text ("word").                                                          *)
(***************************************************************************)
Itoa(seq) == [kind |-> "num", val |-> seq]

Atoi(tok) ==
    IF tok.kind = "num" THEN [ok |-> TRUE, val |-> tok.val]
    ELSE [ok |-> FALSE, val |-> 0]

TrimSpace(tok) == IF tok.kind = "padded" THEN [kind |-> "num", val |-> tok.val] ELSE tok

FinishLine == << [kind |-> "word", val |-> 0] >>

\* every order in which a range over the map can visit the keys S
Orders(S) ==
    {o \in [1 .. Cardinality(S) -> S] :
        \A i, j \in 1 .. Cardinality(S) : i # j => o[i] # o[j]}

(***************************************************************************)
(* Client (new_client.go).                                                 *)
(***************************************************************************)
NewClient(t) ==
    [window |-> [s \in {} |-> 0], windowStart |-> 0, windowSize |-> minWindowSize,
     nextSequence |-> 0, totalSent |-> 0, totalDropped |-> 0, lastAckTime |-> t]

WindowLen(c) == Cardinality(DOMAIN c.window)

\* c.window[seq] = pkt
Put(window, seq, pkt) ==
    [s \in DOMAIN window \cup {seq} |-> IF s = seq THEN pkt ELSE window[s]]

\* delete(c.window, seq)
Delete(window, seq) == [s \in DOMAIN window \ {seq} |-> window[s]]

\* Deliverable with the comparison turned round
DeliverableInverted(r) == r < dropProbability

\* the drop decision of both send paths: rand.Float64() > dropProbability
Deliverable(r) == r > dropProbability

\* adjustWindow that halves the size without the floor of minWindowSize
adjustWindowNoFloor(c, t) ==
    IF t - c.lastAckTime < ackRegularWithin
    THEN IF WindowLen(c) < c.windowSize /\ c.windowSize < maxWindowSize
         THEN [c EXCEPT !.windowSize = min(c.windowSize + 1, maxWindowSize)]
         ELSE c
    ELSE [c EXCEPT !.windowSize = c.windowSize \div 2]

adjustWindow(c, t) ==
    IF t - c.lastAckTime < ackRegularWithin
    THEN IF WindowLen(c) < c.windowSize /\ c.windowSize < maxWindowSize
         THEN [c EXCEPT !.windowSize = min(c.windowSize + 1, maxWindowSize)]
         ELSE c
    ELSE [c EXCEPT !.windowSize = max(c.windowSize \div 2, minWindowSize)]

\* the packets the retransmission scan finds due
Due(c, t) == {s \in DOMAIN c.window : t - c.window[s].sendTime >= retransmitAfter}

\* RetransmitOne that restamps the packet whatever the drop decision
RetransmitOneRestampsDropped(c, seq, r, t) ==
    LET c1 == [c EXCEPT !.window[seq].sendTime = t, !.window[seq].attempts = @ + 1]
    IN  IF Deliverable(r) THEN c1 ELSE [c1 EXCEPT !.totalDropped = @ + 1]

\* RetransmitOne that leaves attempts as it was
RetransmitOneKeepsAttempts(c, seq, r, t) ==
    IF Deliverable(r)
    THEN [c EXCEPT !.window[seq].sendTime = t]
    ELSE [c EXCEPT !.totalDropped = @ + 1]

\* one visit of the scan's loop body, for a due packet
RetransmitOne(c, seq, r, t) ==
    IF Deliverable(r)
    THEN [c EXCEPT !.window[seq].sendTime = t, !.window[seq].attempts = @ + 1]
    ELSE [c EXCEPT !.totalDropped = @ + 1]

RECURSIVE RetransmitLoop(_, _, _, _, _, _)
RetransmitLoop(c, toRetransmit, order, i, draws, t) ==
    IF i > Len(order) THEN [c |-> c, batch |-> toRetransmit]
    ELSE LET seq == order[i]
         IN  RetransmitLoop(RetransmitOne(c, seq, draws[seq], t),
                            IF Deliverable(draws[seq])
                            THEN Append(toRetransmit, Itoa(seq)) ELSE toRetransmit,
                            order, i + 1, draws, t)

\* order: the due keys in the order the range visits them
handleRetransmissions(c, order, draws, t) == RetransmitLoop(c, <<>>, order, 1, draws, t)

\* Admissions with the free slots taken to be the whole window
AdmissionsIgnoringOccupancy(c) ==
    max(0, min(c.windowSize, targetPackets - c.totalSent))

\* Admissions that admits one packet per free slot whatever the budget
AdmissionsIgnoringBudget(c) ==
    IF WindowLen(c) >= c.windowSize THEN 0
    ELSE c.windowSize - WindowLen(c)

\* how many passes the admission loop makes: none when the window is full,
\* else one per free slot while the budget lasts
Admissions(c) ==
    IF WindowLen(c) >= c.windowSize THEN 0
    ELSE max(0, min(c.windowSize - WindowLen(c), targetPackets - c.totalSent))

\* AdmitOne that puts the packet in flight whatever the drop decision
AdmitOneKeepsDropped(c, r, t) ==
    LET seq == c.nextSequence % maxSequenceNumber
        c1  == [c EXCEPT !.window = Put(c.window, seq,
                  [sequenceNumber |-> seq, sendTime |-> t, attempts |-> 1])]
        c2  == IF Deliverable(r) THEN c1 ELSE [c1 EXCEPT !.totalDropped = @ + 1]
    IN  [c2 EXCEPT !.nextSequence = @ + 1, !.totalSent = @ + 1]

\* AdmitOne with totalSent counting only what was put in flight
AdmitOneCountsDeliveredOnly(c, r, t) ==
    LET seq == c.nextSequence % maxSequenceNumber
    IN  IF Deliverable(r)
        THEN [c EXCEPT !.window = Put(c.window, seq,
                          [sequenceNumber |-> seq, sendTime |-> t, attempts |-> 1]),
                       !.nextSequence = @ + 1, !.totalSent = @ + 1]
        ELSE [c EXCEPT !.totalDropped = @ + 1, !.nextSequence = @ + 1]

\* AdmitOne that uses the attempt count as the sequence number, unreduced
AdmitOneNoModulo(c, r, t) ==
    LET seq == c.nextSequence
        c1  == IF Deliverable(r)
               THEN [c EXCEPT !.window = Put(c.window, seq,
                        [sequenceNumber |-> seq, sendTime |-> t, attempts |-> 1])]
               ELSE [c EXCEPT !.totalDropped = @ + 1]
    IN  [c1 EXCEPT !.nextSequence = @ + 1, !.totalSent = @ + 1]

\* one pass of the admission loop's body
AdmitOne(c, r, t) ==
    LET seq == c.nextSequence % maxSequenceNumber
        c1  == IF Deliverable(r)
               THEN [c EXCEPT !.window = Put(c.window, seq,
                        [sequenceNumber |-> seq, sendTime |-> t, attempts |-> 1])]
               ELSE [c EXCEPT !.totalDropped = @ + 1]
    IN  [c1 EXCEPT !.nextSequence = @ + 1, !.totalSent = @ + 1]

RECURSIVE AdmitLoop(_, _, _, _, _)
AdmitLoop(c, toSend, i, draws, t) ==
    IF i > Len(draws) THEN [c |-> c, batch |-> toSend]
    ELSE AdmitLoop(AdmitOne(c, draws[i], t),
                   IF Deliverable(draws[i])
                   THEN Append(toSend, Itoa(c.nextSequence % maxSequenceNumber))
                   ELSE toSend,
                   i + 1, draws, t)

\* draws: one rand.Float64() per pass of the loop
sendNewPackets(c, draws, t) == AdmitLoop(c, <<>>, 1, draws, t)

\* AckOne that treats the acknowledgment as cumulative
AckOneCumulative(c, tok, t) ==
    LET a == Atoi(tok)
    IN  IF ~a.ok THEN c
        ELSE [c EXCEPT !.window = [s \in {u \in DOMAIN c.window : u > a.val}
                                      |-> c.window[s]],
                       !.lastAckTime = t,
                       !.windowStart = IF c.windowStart = a.val
                                       THEN (c.windowStart + 1) % maxSequenceNumber
                                       ELSE c.windowStart]

\* the body of processAcks' loop for one token
AckOne(c, tok, t) ==
    LET a == Atoi(tok)
    IN  IF ~a.ok THEN c
        ELSE [c EXCEPT !.window = Delete(c.window, a.val),
                       !.lastAckTime = t,
                       !.windowStart = IF c.windowStart = a.val
                                       THEN (c.windowStart + 1) % maxSequenceNumber
                                       ELSE c.windowStart]

\* processAcks that returns at its first malformed token
RECURSIVE processAcksStopsAtMalformed(_, _, _)
processAcksStopsAtMalformed(c, acks, t) ==
    IF acks = <<>> \/ ~Atoi(Head(acks)).ok THEN c
    ELSE processAcksStopsAtMalformed(AckOne(c, Head(acks), t), Tail(acks), t)

RECURSIVE processAcks(_, _, _)
processAcks(c, acks, t) ==
    IF acks = <<>> THEN c ELSE processAcks(AckOne(c, Head(acks), t), Tail(acks), t)

\* the numeric tokens of a line, as the reader of that line parses them
NumericTokens(line) == SelectSeq(line, LAMBDA tok : Atoi(tok).ok)

(***************************************************************************)
(* More bounds of the model.                                               *)
(***************************************************************************)
\* stand-ins for minWindowSize, maxWindowSize and targetPackets
SmallMinWindow == 2
SmallMaxWindow == 3
SmallTarget == 3

\* the clock stops here
MaxTime == 2

\* lines a stream holds before a write blocks
StreamCap == 1

\* retries are no longer dropped once totalDropped has reached this
MaxDropped == 2

\* stand-in for server1.go's targetPackets in the run where the server stops first
SmallServerTarget == 2

(***************************************************************************)
(* Configurations.                                                         *)
(***************************************************************************)
\* dropProbability = 0.01, in hundredths
defaultDropProbability == 1

\* server1.go's targetPackets
defaultServerTarget == 50000

GeneralConfig ==
    [minWindowSize |-> SmallMinWindow, maxWindowSize |-> SmallMaxWindow,
     dropProbability |-> defaultDropProbability, targetPackets |-> SmallTarget,
     serverTargetPackets |-> defaultServerTarget, randSamples |-> RandSamples]

\* drop probability 1.0
AlwaysDropConfig == [GeneralConfig EXCEPT !.dropProbability = 100]

\* the receiver reaches its target before the sender does
ServerStopsConfig == [GeneralConfig EXCEPT !.serverTargetPackets = SmallServerTarget]

\* window size 4, drop probability 0, target count 10, in the runs in which
\* rand.Float64() never returns exactly 0.0 (the one value that
\* rand.Float64() > 0 turns into a drop)
ScenarioAConfig ==
    [minWindowSize |-> 4, maxWindowSize |-> 4, dropProbability |-> 0,
     targetPackets |-> 10, serverTargetPackets |-> defaultServerTarget,
     randSamples |-> RandSamples \ {0}]

\* lastTick when the step just taken was no send or retransmission tick
NoTick ==
    [kind |-> "none", full |-> FALSE, due |-> {}, resent |-> <<>>, admitted |-> 0,
     dropped |-> 0]

(***************************************************************************)
(* History of what the sender has written.                                 *)
(***************************************************************************)
RECURSIVE CountWrites(_, _)
CountWrites(w, batch) ==
    IF batch = <<>> THEN w
    ELSE LET a == Atoi(Head(batch))
             w1 == IF ~a.ok THEN w
                   ELSE [s \in DOMAIN w \cup {a.val} |->
                            IF s = a.val
                            THEN (IF s \in DOMAIN w THEN w[s] ELSE 0) + 1
                            ELSE w[s]]
         IN  CountWrites(w1, Tail(batch))

(***************************************************************************)
(* handleConnection (server1.go): the tokens of one line, recorded.        *)
(***************************************************************************)
\* RecordLine that gives up the line at its first malformed token
RECURSIVE RecordLineStopsAtMalformed(_, _)
RecordLineStopsAtMalformed(st, parts) ==
    IF parts = <<>> THEN st
    ELSE LET a == Atoi(TrimSpace(Head(parts)))
         IN  IF a.ok THEN RecordLineStopsAtMalformed(recordPacket(st, a.val), Tail(parts))
             ELSE st

RECURSIVE RecordLine(_, _)
RecordLine(st, parts) ==
    IF parts = <<>> THEN st
    ELSE LET a == Atoi(TrimSpace(Head(parts)))
         IN  RecordLine(IF a.ok THEN recordPacket(st, a.val) ELSE st, Tail(parts))

(***************************************************************************)
(* Initial states.                                                         *)
(***************************************************************************)
TrackerIdle ==
    /\ tracker = newSimpleTracker
    /\ fed = <<>>
    /\ trackerBefore = newSimpleTracker

FnIdle == fnIn = 0 /\ fnOut = -1

\* after the handshake: NewClient, the tickers, the ACK goroutine started
Connected(config) ==
    /\ cfg = config
    /\ now = 0
    /\ client = NewClient(0)
    /\ mu = "free"
    /\ mainPc = "select"
    /\ outBatch = <<>>
    /\ ackPc = "scan"
    /\ ackLine = <<>>
    /\ c2s = <<>>
    /\ s2c = <<>>
    /\ clientClosed = FALSE
    /\ serverClosed = FALSE
    /\ recvPc = "scan"
    /\ recvLine = <<>>
    /\ written = [s \in {} |-> 0]
    /\ acked = 0
    /\ lastTick = NoTick

(***************************************************************************)
(* The clock.                                                              *)
(***************************************************************************)
Tick ==
    /\ now < MaxTime
    /\ mainPc # "exited"
    /\ now' = now + 1
    /\ lastTick' = NoTick
    /\ UNCHANGED <<cfg, client, mu, mainPc, outBatch, ackPc, ackLine, c2s, s2c,
                   clientClosed, serverClosed, tracker, recvPc, recvLine, written,
                   acked, fed, trackerBefore, fnIn, fnOut>>

(***************************************************************************)
(* main's control loop (new_client.go): one action per case of the select, *)
(* and one per blocking step inside a case.                                *)
(***************************************************************************)
\* case <-sendTicker.C, up to conn.Write
MainSend ==
    /\ mainPc = "select"
    /\ mu = "free"
    /\ \E draws \in [1 .. Admissions(client) -> cfg.randSamples] :
         LET r == sendNewPackets(client, draws, now)
         IN  /\ client' = r.c
             /\ outBatch' = r.batch
             /\ mainPc' = IF r.batch = <<>> THEN "select" ELSE "sendWrite"
             /\ mu' = IF r.batch = <<>> THEN "free" ELSE "main"
             /\ lastTick' = [kind |-> "send",
                             full |-> WindowLen(client) >= client.windowSize,
                             due |-> Due(client, now),
                             resent |-> <<>>,
                             admitted |-> r.c.totalSent - client.totalSent,
                             dropped |-> r.c.totalDropped - client.totalDropped]
    /\ UNCHANGED <<cfg, ackPc, ackLine, now, c2s, s2c, clientClosed, serverClosed,
                   tracker, recvPc, recvLine, written, acked, fed, trackerBefore,
                   fnIn, fnOut>>

\* conn.Write of the control loop: blocks while the stream is full; once the
\* server has closed, the write either fails or is lost
WriteBatch(onError) ==
    IF serverClosed
    THEN \E ok \in BOOLEAN :
            /\ mainPc' = IF ok THEN "select" ELSE onError
            /\ clientClosed' = IF ok THEN clientClosed ELSE TRUE
            /\ UNCHANGED <<c2s, written>>
    ELSE /\ Len(c2s) < StreamCap
         /\ c2s' = Append(c2s, outBatch)
         /\ written' = CountWrites(written, outBatch)
         /\ mainPc' = "select"
         /\ UNCHANGED clientClosed

\* sendNewPackets: conn.Write, then the deferred Unlock
MainSendWrite ==
    /\ mainPc = "sendWrite"
    /\ WriteBatch("exited")
    /\ mu' = "free"
    /\ outBatch' = <<>>
    /\ lastTick' = NoTick
    /\ UNCHANGED <<cfg, client, ackPc, ackLine, now, s2c, serverClosed, tracker,
                   recvPc, recvLine, acked, fed, trackerBefore, fnIn,
                   fnOut>>

\* case <-retransmitTicker.C, up to conn.Write; the lock is released first
MainRetransmit ==
    /\ mainPc = "select"
    /\ mu = "free"
    /\ \E order \in Orders(Due(client, now)) :
       \E draws \in [Due(client, now) -> cfg.randSamples] :
         LET r == handleRetransmissions(client, order, draws, now)
         IN  /\ r.c.totalDropped > client.totalDropped => r.c.totalDropped <= MaxDropped
             /\ client' = r.c
             /\ outBatch' = r.batch
             /\ mainPc' = IF r.batch = <<>> THEN "select" ELSE "retransmitWrite"
             /\ lastTick' = [kind |-> "retransmit",
                             full |-> WindowLen(client) >= client.windowSize,
                             due |-> Due(client, now),
                             resent |-> r.batch,
                             admitted |-> r.c.totalSent - client.totalSent,
                             dropped |-> r.c.totalDropped - client.totalDropped]
    /\ UNCHANGED <<cfg, mu, ackPc, ackLine, now, c2s, s2c, clientClosed,
                   serverClosed, tracker, recvPc, recvLine, written, acked, fed,
                   trackerBefore, fnIn, fnOut>>

MainRetransmitWrite ==
    /\ mainPc = "retransmitWrite"
    /\ WriteBatch("exited")
    /\ outBatch' = <<>>
    /\ lastTick' = NoTick
    /\ UNCHANGED <<cfg, client, mu, ackPc, ackLine, now, s2c, serverClosed,
                   tracker, recvPc, recvLine, acked, fed, trackerBefore,
                   fnIn, fnOut>>

\* case <-adjustTicker.C
MainAdjust ==
    /\ mainPc = "select"
    /\ mu = "free"
    /\ client' = adjustWindow(client, now)
    /\ lastTick' = NoTick
    /\ UNCHANGED <<cfg, mu, mainPc, outBatch, ackPc, ackLine, now, c2s, s2c,
                   clientClosed, serverClosed, tracker, recvPc, recvLine, written,
                   acked, fed, trackerBefore, fnIn, fnOut>>

\* the completion test of the report case
isComplete(c) == c.totalSent >= targetPackets

\* case <-reportTicker.C, up to the write of FINISH; the lock stays held
MainReport ==
    /\ mainPc = "select"
    /\ mu = "free"
    /\ mainPc' = IF isComplete(client) THEN "finishWrite" ELSE "select"
    /\ mu' = IF isComplete(client) THEN "main" ELSE "free"
    /\ lastTick' = NoTick
    /\ UNCHANGED <<cfg, client, outBatch, ackPc, ackLine, now, c2s, s2c,
                   clientClosed, serverClosed, tracker, recvPc, recvLine, written,
                   acked, fed, trackerBefore, fnIn, fnOut>>

\* client.conn.Write([]byte("FINISH\n")): an error is printed and ignored
MainFinishWrite ==
    /\ mainPc = "finishWrite"
    /\ IF serverClosed THEN UNCHANGED c2s
       ELSE Len(c2s) < StreamCap /\ c2s' = Append(c2s, FinishLine)
    /\ mainPc' = "sleep"
    /\ lastTick' = NoTick
    /\ UNCHANGED <<cfg, client, mu, outBatch, ackPc, ackLine, now, s2c,
                   clientClosed, serverClosed, tracker, recvPc, recvLine, written,
                   acked, fed, trackerBefore, fnIn, fnOut>>

\* time.Sleep(500 * time.Millisecond); client.mu.Unlock()
MainSleep ==
    /\ mainPc = "sleep"
    /\ mu' = "free"
    /\ mainPc' = "returning"
    /\ lastTick' = NoTick
    /\ UNCHANGED <<cfg, client, outBatch, ackPc, ackLine, now, c2s, s2c,
                   clientClosed, serverClosed, tracker, recvPc, recvLine, written,
                   acked, fed, trackerBefore, fnIn, fnOut>>

\* return: the deferred conn.Close(), and the process ends
MainReturn ==
    /\ mainPc = "returning"
    /\ mainPc' = "exited"
    /\ clientClosed' = TRUE
    /\ lastTick' = NoTick
    /\ UNCHANGED <<cfg, client, mu, outBatch, ackPc, ackLine, now, c2s, s2c,
                   serverClosed, tracker, recvPc, recvLine, written, acked,
                   fed, trackerBefore, fnIn, fnOut>>

\* MainDone with a break that leaves the select and not the for loop
MainDoneKeepsLooping ==
    /\ mainPc = "select"
    /\ ackPc = "signal"
    /\ ackPc' = "ended"
    /\ lastTick' = NoTick
    /\ UNCHANGED <<cfg, client, mu, mainPc, outBatch, ackLine, now, c2s, s2c,
                   clientClosed, serverClosed, tracker, recvPc, recvLine, written,
                   acked, fed, trackerBefore, fnIn, fnOut>>

\* case <-done: the rendezvous with the ACK goroutine's done <- true
MainDone ==
    /\ mainPc = "select"
    /\ ackPc = "signal"
    /\ ackPc' = "ended"
    /\ mainPc' = "exited"
    /\ clientClosed' = TRUE
    /\ lastTick' = NoTick
    /\ UNCHANGED <<cfg, client, mu, outBatch, ackLine, now, c2s, s2c, serverClosed,
                   tracker, recvPc, recvLine, written, acked, fed,
                   trackerBefore, fnIn, fnOut>>

(***************************************************************************)
(* The ACK goroutine of main (new_client.go).                              *)
(***************************************************************************)
\* scanner.Scan(): a line, or false once the server has closed
AckScan ==
    /\ mainPc # "exited"
    /\ ackPc = "scan"
    /\ s2c # <<>> \/ serverClosed
    /\ IF s2c # <<>>
       THEN ackLine' = Head(s2c) /\ s2c' = Tail(s2c) /\ ackPc' = "process"
       ELSE ackPc' = "signal" /\ UNCHANGED <<ackLine, s2c>>
    /\ lastTick' = NoTick
    /\ UNCHANGED <<cfg, client, mu, mainPc, outBatch, now, c2s, clientClosed,
                   serverClosed, tracker, recvPc, recvLine, written, acked,
                   fed, trackerBefore, fnIn, fnOut>>

\* client.processAcks(acks)
AckProcess ==
    /\ mainPc # "exited"
    /\ ackPc = "process"
    /\ mu = "free"
    /\ client' = processAcks(client, ackLine, now)
    /\ acked' = acked + Len(NumericTokens(ackLine))
    /\ ackPc' = "scan"
    /\ ackLine' = <<>>
    /\ lastTick' = NoTick
    /\ UNCHANGED <<cfg, mu, mainPc, outBatch, now, c2s, s2c, clientClosed,
                   serverClosed, tracker, recvPc, recvLine, written, fed,
                   trackerBefore, fnIn, fnOut>>

(***************************************************************************)
(* handleConnection (server1.go), after the handshake.                     *)
(***************************************************************************)
\* scanner.Scan(), the target test, and the loop over the line's parts
RecvScan ==
    /\ recvPc = "scan"
    /\ c2s # <<>> \/ clientClosed
    /\ IF c2s = <<>>
       THEN /\ recvPc' = "closed"
            /\ serverClosed' = TRUE
            /\ UNCHANGED <<c2s, tracker, recvLine>>
       ELSE /\ c2s' = Tail(c2s)
            /\ IF tracker.receivedCount >= serverTargetPackets
               THEN /\ recvPc' = "closed"
                    /\ serverClosed' = TRUE
                    /\ UNCHANGED <<tracker, recvLine>>
               ELSE /\ tracker' = RecordLine(tracker, Head(c2s))
                    /\ recvLine' = Head(c2s)
                    /\ recvPc' = "ack"
                    /\ UNCHANGED serverClosed
    /\ lastTick' = NoTick
    /\ UNCHANGED <<cfg, client, mu, mainPc, outBatch, ackPc, ackLine, now, s2c,
                   clientClosed, written, acked, fed, trackerBefore,
                   fnIn, fnOut>>

\* conn.Write([]byte(ackMsg)): blocks while the stream is full; once the
\* client has closed, the write either fails or is lost
RecvAck ==
    /\ recvPc = "ack"
    /\ IF clientClosed
       THEN \E ok \in BOOLEAN :
               /\ recvPc' = IF ok THEN "scan" ELSE "closed"
               /\ serverClosed' = ~ok
               /\ UNCHANGED s2c
       ELSE /\ Len(s2c) < StreamCap
            /\ s2c' = Append(s2c, recvLine)
            /\ recvPc' = "scan"
            /\ UNCHANGED serverClosed
    /\ recvLine' = <<>>
    /\ lastTick' = NoTick
    /\ UNCHANGED <<cfg, client, mu, mainPc, outBatch, ackPc, ackLine, now, c2s,
                   clientClosed, tracker, written, acked, fed,
                   trackerBefore, fnIn, fnOut>>

(***************************************************************************)
(* The sender and the receiver on one connection.                          *)
(***************************************************************************)
Init ==
    /\ \E config \in {GeneralConfig, AlwaysDropConfig, ServerStopsConfig} :
          Connected(config)
    /\ TrackerIdle
    /\ FnIdle

Next ==
    \/ Tick
    \/ MainSend
    \/ MainSendWrite
    \/ MainRetransmit
    \/ MainRetransmitWrite
    \/ MainAdjust
    \/ MainReport
    \/ MainFinishWrite
    \/ MainSleep
    \/ MainReturn
    \/ MainDone
    \/ AckScan
    \/ AckProcess
    \/ RecvScan
    \/ RecvAck

Spec == Init /\ [][Next]_vars

\* the same system in the configuration of scenario A
InitA == Connected(ScenarioAConfig) /\ TrackerIdle /\ FnIdle

\* the server's target is out of reach there, so the server never closes first
\* and the done case of the select is never ready
NextA ==
    \/ Tick
    \/ MainSend
    \/ MainSendWrite
    \/ MainRetransmit
    \/ MainRetransmitWrite
    \/ MainAdjust
    \/ MainReport
    \/ MainFinishWrite
    \/ MainSleep
    \/ MainReturn
    \/ AckScan
    \/ AckProcess
    \/ RecvScan
    \/ RecvAck

SpecA == InitA /\ [][NextA]_vars

(***************************************************************************)
(* A SimpleTracker on its own, fed any run of sampled sequence numbers.    *)
(***************************************************************************)
SenderIdle == Connected(GeneralConfig)

\* tracker.recordPacket(seq) for a seq of S
Record(S) ==
    /\ \E seq \in S :
         /\ tracker' = recordPacket(tracker, seq)
         /\ fed' = Append(fed, seq)
    /\ trackerBefore' = tracker
    /\ UNCHANGED <<senderVars, fnIn, fnOut>>

TrackerRecord == Len(fed) < MaxCalls /\ Record(SeqSamples)

\* the in-order successor of the last number fed
TrackerRecordNext ==
    /\ fed # <<>>
    /\ Len(fed) < MaxCalls
    /\ Record({(fed[Len(fed)] + 1) % maxSequenceNumber})

InitTracker == SenderIdle /\ TrackerIdle /\ FnIdle

NextTracker == TrackerRecord \/ TrackerRecordNext

SpecTracker == InitTracker /\ [][NextTracker]_vars

(***************************************************************************)
(* A SimpleTracker fed two numbers: any first one, then the same one or    *)
(* its successor.                                                          *)
(***************************************************************************)
FeedFirst == fed = <<>> /\ Record(0 .. maxSequenceNumber - 1)

FeedSame == Len(fed) = 1 /\ Record({fed[1]})

FeedSuccessor == Len(fed) = 1 /\ Record({(fed[1] + 1) % maxSequenceNumber})

NextGap == FeedFirst \/ FeedSame \/ FeedSuccessor

SpecGap == InitTracker /\ [][NextGap]_vars

(***************************************************************************)
(* protocol.IncrementSeq applied to any uint16.                            *)
(***************************************************************************)
InitIncrement == SenderIdle /\ TrackerIdle /\ fnIn \in Uint16 /\ fnOut = -1

ApplyIncrementSeq ==
    /\ fnOut = -1
    /\ fnOut' = IncrementSeq(fnIn)
    /\ UNCHANGED <<senderVars, tracker, fed, trackerBefore, fnIn>>

SpecIncrement == InitIncrement /\ [][ApplyIncrementSeq]_vars

(***************************************************************************)
(* A SimpleTracker fed two numbers: any first one, then one half the       *)
(* sequence space away from it, or next to that.                           *)
(***************************************************************************)
\* how far the second number lies ahead of the first, modulo 65536
HalfRangeOffsets == {32767, 32768, 32769, 65535}

FeedAcross ==
    /\ Len(fed) = 1
    /\ Record({(fed[1] + d) % maxSequenceNumber : d \in HalfRangeOffsets})

NextDistance == FeedFirst \/ FeedAcross

SpecDistance == InitTracker /\ [][NextDistance]_vars

(***************************************************************************)

(* Properties.                                                             *)
(***************************************************************************)
\* the control loop has declared the transmission complete
DeclaredComplete == mainPc \in {"finishWrite", "sleep", "returning", "exited"}

RECURSIVE SumWrites(_, _)
SumWrites(w, S) ==
    IF S = {} THEN 0
    ELSE LET s == CHOOSE x \in S : TRUE IN w[s] + SumWrites(w, S \ {s})

\* how many sequence-number tokens the sender has written
TotalWrites == SumWrites(written, DOMAIN written)

\* the numbers of a batch
BatchNumbers(batch) == {batch[i].val : i \in 1 .. Len(batch)}

(***************************************************************************)
(* The receiver and the sender's ACK goroutine on lines of any content:    *)
(* the control loop writes its first batch and takes no other tick, while  *)
(* some writer on the client's side of the connection puts further lines   *)
(* on the stream, well-formed or not; the receiver records and echoes      *)
(* every line; the ACK goroutine processes the echoes.  (The empty line,   *)
(* which handleConnection skips without an ACK, is not among the lines.)   *)
(***************************************************************************)
\* numeric tokens written to the stream, over the whole run
MaxPeerWrites == 5

Num(n) == [kind |-> "num", val |-> n]
Padded(n) == [kind |-> "padded", val |-> n]
Word == [kind |-> "word", val |-> 0]

PeerLines ==
    { <<Num(2)>>, <<Num(1), Num(0)>>, <<Num(0), Word, Num(1)>>,
      <<Word, Num(2)>>, <<Padded(1), Num(0)>>, <<Word>>,
      <<Num(65536)>>, <<Num(-1), Num(1)>>, <<Num(70000)>> }

\* the first batch: minWindowSize packets admitted, none dropped
FirstBatch == sendNewPackets(NewClient(0), [i \in 1 .. minWindowSize |-> 99], 0)

\* the first send tick has admitted the first batch and is about to write it
InitEcho ==
    /\ cfg = GeneralConfig
    /\ now = 0
    /\ client = FirstBatch.c
    /\ mu = "main"
    /\ mainPc = "sendWrite"
    /\ outBatch = FirstBatch.batch
    /\ ackPc = "scan"
    /\ ackLine = <<>>
    /\ c2s = <<>>
    /\ s2c = <<>>
    /\ clientClosed = FALSE
    /\ serverClosed = FALSE
    /\ recvPc = "scan"
    /\ recvLine = <<>>
    /\ written = [s \in {} |-> 0]
    /\ acked = 0
    /\ lastTick = [kind |-> "send", full |-> FALSE, due |-> {}, resent |-> <<>>,
                   admitted |-> minWindowSize, dropped |-> 0]
    /\ TrackerIdle
    /\ FnIdle

\* conn.Write of a line by the writer on the client's side
PeerSend ==
    /\ TotalWrites < MaxPeerWrites
    /\ Len(c2s) < StreamCap
    /\ \E line \in PeerLines :
         /\ c2s' = Append(c2s, line)
         /\ written' = CountWrites(written, line)
    /\ lastTick' = NoTick
    /\ UNCHANGED <<cfg, client, mu, mainPc, outBatch, ackPc, ackLine, now, s2c,
                   clientClosed, serverClosed, tracker, recvPc, recvLine, acked,
                   fed, trackerBefore, fnIn, fnOut>>

NextEcho ==
    \/ PeerSend
    \/ Tick
    \/ MainSendWrite
    \/ RecvScan
    \/ RecvAck
    \/ AckScan
    \/ AckProcess

SpecEcho == InitEcho /\ [][NextEcho]_vars

\* the tokens of a line that handleConnection records
RecordedTokens(line) == SelectSeq(line, LAMBDA tok : Atoi(TrimSpace(tok)).ok)

\* handleConnection has just recorded a line
Recorded == recvPc = "scan" /\ recvPc' = "ack"

\* handleConnection has just come back from the write of an ACK line
AckWritten == recvPc = "ack" /\ recvPc' # "ack"

\* C12 as stated: the ACK line handleConnection writes for a line consists of
\* exactly the numbers the tracker recorded from it.
C12_AckIsRecordedNumbers ==
    [][/\ Recorded
          => tracker'.receivedCount - tracker.receivedCount = Len(RecordedTokens(recvLine'))
       /\ AckWritten
          => /\ s2c' = Append(s2c, RecordedTokens(recvLine))
             /\ \A i \in 1 .. Len(recvLine) : recvLine[i].kind = "num"]_vars

\* C12, amended: for every non-empty line it processes, handleConnection
\* records each token that is a number once its blanks are trimmed, one
\* recordPacket call per such token, and then writes the line back as it came:
\* every recorded number is in the ACK as the token it arrived as, and the
\* tokens that were not recorded are in the ACK as well (the write is lost or
\* fails only once the client has closed the connection).
C12_AckEchoesLine ==
    [][/\ Recorded
          => /\ tracker'.receivedCount - tracker.receivedCount
                   = Len(RecordedTokens(recvLine'))
             /\ c2s # <<>> /\ recvLine' = Head(c2s)
       /\ AckWritten /\ ~clientClosed
          => s2c' = Append(s2c, recvLine) /\ recvPc' = "scan"]_vars

\* C12's case: a line with a malformed token between two numbers was
\* recorded and echoed whole
C12_Witness ==
    /\ s2c = << <<Num(0), Word, Num(1)>> >>
    /\ recvPc = "scan"
    /\ tracker.receivedCount >= 2

\* C1 as stated: in every reachable state the in-flight map holds at most
\* windowSize entries.
C1_WindowWithinSize == WindowLen(client) <= client.windowSize

\* C1, amended: the in-flight map never holds more than maxWindowSize entries,
\* and no step of send, retransmission or acknowledgment processing takes it
\* from at most windowSize entries to more: the only step after which it holds
\* more than windowSize entries, having held at most windowSize before, is
\* adjustWindow's halving of windowSize, which does not look at the map.
C1_AdmissionWithinSize ==
    [][/\ WindowLen(client') <= maxWindowSize
       /\ WindowLen(client') > client'.windowSize
             => \/ WindowLen(client) > client.windowSize
                \/ client'.windowSize < client.windowSize]_vars

\* C1's case: a send tick has just filled the window to its size
C1_Witness ==
    /\ lastTick.kind = "send"
    /\ lastTick.admitted > 0
    /\ WindowLen(client) = client.windowSize
    /\ client.windowSize > minWindowSize

\* C2 as stated: a tick of the control loop that finds the window full and a
\* packet due sends a retransmission and admits no new sequence number.
C2_RetryBeforeAdmission ==
    lastTick.kind \in {"send", "retransmit"} /\ lastTick.full /\ lastTick.due # {}
        => lastTick.resent # <<>> /\ lastTick.admitted = 0

\* C2, amended: sendNewPackets and handleRetransmissions run on tickers of their
\* own, in no fixed order.  A send tick that finds the window full admits no
\* sequence number and writes nothing, whether or not a packet is due; a
\* retransmission tick admits no sequence number, and its batch holds each due
\* packet whose retry was not dropped, once, and nothing else.
C2_FullWindowAdmitsNothing ==
    /\ lastTick.kind = "send" /\ lastTick.full
          => lastTick.admitted = 0 /\ outBatch = <<>> /\ mainPc = "select"
    /\ lastTick.kind = "retransmit"
          => /\ lastTick.admitted = 0
             /\ BatchNumbers(lastTick.resent) \subseteq lastTick.due
             /\ Cardinality(BatchNumbers(lastTick.resent)) = Len(lastTick.resent)
             /\ Len(lastTick.resent) + lastTick.dropped = Cardinality(lastTick.due)

\* C2's case: the window is full, a packet is due, and the retransmission tick
\* has put it in its batch
C2_Witness ==
    /\ lastTick.kind = "retransmit"
    /\ lastTick.full
    /\ lastTick.due # {}
    /\ lastTick.resent # <<>>

C4_NeverCompletes ==
    dropProbability = 100
        => /\ WindowLen(client) = 0
           /\ client.totalDropped = client.totalSent
           /\ ~isComplete(client)
           /\ ~DeclaredComplete

\* C4, amended: with drop probability 1.0 every admission attempt is dropped,
\* the in-flight map stays empty and no sequence number is written; totalSent
\* counts the dropped attempts, so the sender reaches its completion condition
\* after exactly targetPackets dropped attempts and then declares the
\* transmission complete.
C4_AllDroppedThenComplete ==
    dropProbability = 100
        => /\ WindowLen(client) = 0
           /\ client.totalDropped = client.totalSent
           /\ client.totalSent <= targetPackets
           /\ DOMAIN written = {}
           /\ DeclaredComplete
                 => isComplete(client) /\ client.totalDropped = targetPackets

\* C4's case: every attempt was dropped and the sender has finished
C4_Witness ==
    /\ dropProbability = 100
    /\ mainPc = "exited"
    /\ client.totalDropped = targetPackets
    /\ WindowLen(client) = 0

\* the last number fed to the tracker
LastFed == fed[Len(fed)]

\* the last call was made on an initialized tracker
OnInitialized == fed # <<>> /\ trackerBefore.lastSeq # -1

\* the numbers fed so far are an in-order run without loss
ConsecutiveRun ==
    \A i \in 2 .. Len(fed) : fed[i] = (fed[i - 1] + 1) % maxSequenceNumber

\* the calls that recorded 0 after 65535
Crossings ==
    {i \in 2 .. Len(fed) : fed[i - 1] = maxSequenceNumber - 1 /\ fed[i] = 0}

\* C5: over any sequence of recordPacket calls with arguments in [0, 65536),
\* missingCount after a call is never below missingCount before it.
C5_MissingCountMonotonic == tracker.missingCount >= trackerBefore.missingCount

\* C5's case: losses were counted, then a late number arrived
C5_Witness ==
    /\ Len(fed) >= 3
    /\ trackerBefore.missingCount > 0
    /\ tracker.lastGap < 0
    /\ tracker.missingCount = trackerBefore.missingCount

\* C6: on an initialized tracker, a recordPacket(seq) call whose adjusted gap
\* to lastSeq is <= 0 leaves missingCount, lastSeq and wrapCount as they were
\* and adds exactly 1 to receivedCount.
C6_LateArrivalFrame ==
    OnInitialized /\ AdjustedGap(LastFed, trackerBefore.lastSeq) <= 0
        => /\ tracker.missingCount = trackerBefore.missingCount
           /\ tracker.lastSeq = trackerBefore.lastSeq
           /\ tracker.wrapCount = trackerBefore.wrapCount
           /\ tracker.receivedCount = trackerBefore.receivedCount + 1

\* C6's case: the same number fed twice in a row
C6_Witness ==
    /\ Len(fed) = 2
    /\ fed[1] = fed[2]
    /\ tracker.receivedCount = 2
    /\ tracker.missingCount = 0

\* C7: a fresh tracker fed an in-order run of consecutive numbers has
\* missingCount 0 and receivedCount equal to the number of calls, and its
\* wrapCount is the number of calls that recorded 0 after 65535: it goes up by
\* 1 at such a call and at no other.
C7_WrapCountedOnce ==
    fed # <<>> /\ ConsecutiveRun
        => /\ tracker.missingCount = 0
           /\ tracker.receivedCount = Len(fed)
           /\ tracker.wrapCount = Cardinality(Crossings)
           /\ tracker.wrapCount =
                 trackerBefore.wrapCount + (IF Len(fed) \in Crossings THEN 1 ELSE 0)

\* C7's case: 65534, 65535, 0, 1
C7_Witness ==
    /\ fed = <<65534, 65535, 0, 1>>
    /\ tracker.wrapCount = 1
    /\ tracker.receivedCount = 4

\* C8: on an initialized tracker, a recordPacket(seq) call whose adjusted gap
\* g to lastSeq is > 0 adds exactly g - 1 to missingCount and sets lastSeq to
\* seq; feeding 10 then 15 gives missingCount 4 and lastSeq 15.
C8_GapCountsMissing ==
    /\ OnInitialized /\ AdjustedGap(LastFed, trackerBefore.lastSeq) > 0
          => /\ tracker.missingCount = trackerBefore.missingCount
                                         + AdjustedGap(LastFed, trackerBefore.lastSeq) - 1
             /\ tracker.lastSeq = LastFed
    /\ fed = <<10, 15>> => tracker.missingCount = 4 /\ tracker.lastSeq = 15

\* C8's case: 10 then 15
C8_Witness ==
    /\ fed = <<10, 15>>
    /\ trackerBefore.lastSeq = 10
    /\ tracker.lastGap = 5

\* C9: the adjusted gap recordPacket computes for seq against lastSeq is 0 when
\* seq = lastSeq and 1 when seq = (lastSeq + 1) mod 65536, for every lastSeq in
\* [0, 65536), 65535 included.
C9_DistanceOfSuccessor ==
    Len(fed) = 2
        => /\ fed[2] = fed[1] => tracker.lastGap = 0
           /\ fed[2] = (fed[1] + 1) % maxSequenceNumber => tracker.lastGap = 1

\* C9's case: 0 after 65535
C9_Witness == fed = <<65535, 0>> /\ tracker.lastGap = 1

\* C10 as stated: IncrementSeq(seq) is (seq + 1) mod 65536 for every seq in
\* [0, 65536).
C10_IncrementMod65536 ==
    fnOut # -1 => fnOut = (fnIn + 1) % maxSequenceNumber

\* C11 as stated: for every seq and lastSeq in [0, 65536) the adjusted gap
\* recordPacket computes lies in (-32768, 32768].
C11_GapHalfOpen ==
    Len(fed) = 2 => -32768 < tracker.lastGap /\ tracker.lastGap <= 32768

\* C11, amended: the adjusted gap lies in the closed range [-32768, 32768] and
\* is congruent to seq - lastSeq modulo 65536; a raw gap of exactly -32768 or
\* 32768 is left as it is, so the gap is -32768 when seq = lastSeq - 32768.
C11_GapClosedRange ==
    Len(fed) = 2
        => /\ -32768 <= tracker.lastGap /\ tracker.lastGap <= 32768
           /\ (tracker.lastGap - (fed[2] - fed[1])) % maxSequenceNumber = 0
           /\ fed[2] = fed[1] - 32768 => tracker.lastGap = -32768
           /\ fed[2] = fed[1] + 32768 => tracker.lastGap = 32768

\* C11's case: a raw gap above 32768, folded down
C11_Witness == fed = <<100, 32869>> /\ tracker.lastGap = -32767

\* sequence number s has been tried with client c and is neither in flight,
\* nor in the batch about to be written, nor was it ever written: its first
\* send attempt was dropped
FirstAttemptDropped(c, batch, w, s) ==
    /\ s < c.nextSequence
    /\ s \notin DOMAIN c.window
    /\ s \notin BatchNumbers(batch)
    /\ s \notin DOMAIN w

\* the sequence numbers a step has tried for the first time
Attempted == client.nextSequence .. client'.nextSequence - 1

RetransmitStep == lastTick'.kind = "retransmit" /\ lastTick' # lastTick

\* the packets in flight for at least retransmitAfter when the step begins
DueBefore ==
    {s \in DOMAIN client.window : now - client.window[s].sendTime >= retransmitAfter}

\* the due packets the step leaves out of its batch: their retry was dropped
RetryDropped == DueBefore \ BatchNumbers(outBatch')

\* C14 as stated: a due packet whose retry is dropped stays in the in-flight
\* map, gets sendTime = now and attempts + 1, and adds 1 to totalDropped.
C14_DroppedRetryRestamped ==
    [][RetransmitStep
          => /\ \A s \in RetryDropped :
                   /\ s \in DOMAIN client'.window
                   /\ client'.window[s].sendTime = now
                   /\ client'.window[s].attempts = client.window[s].attempts + 1
             /\ client'.totalDropped - client.totalDropped
                   = Cardinality(RetryDropped)]_vars

\* C14, amended: a due packet whose retry is dropped stays in the in-flight
\* map with its sendTime and attempts as they were, and adds 1 to
\* totalDropped; it is therefore still due at the next call.
C14_DroppedRetryUntouched ==
    [][RetransmitStep
          => /\ \A s \in RetryDropped :
                   /\ s \in DOMAIN client'.window
                   /\ client'.window[s] = client.window[s]
                   /\ now - client'.window[s].sendTime >= retransmitAfter
             /\ client'.totalDropped - client.totalDropped
                   = Cardinality(RetryDropped)]_vars

\* C14's case: a retry has just been dropped, and the packet is as it was
\* after its first send
C14_Witness ==
    /\ lastTick.kind = "retransmit"
    /\ lastTick.dropped > 0
    /\ \E s \in lastTick.due \ BatchNumbers(lastTick.resent) :
          /\ s \in DOMAIN client.window
          /\ client.window[s].attempts = 1
          /\ client.window[s].sendTime < now

\* C15: a call of handleRetransmissions puts in its batch, once each, the due
\* packets whose retry is deliverable (the others are counted in
\* totalDropped) and nothing else; each packet of the batch stays in the
\* in-flight map with sendTime = now and attempts + 1; a packet that is not due
\* is not in the batch and its entry is as it was; the batch is then written
\* as one line.
C15_DeliverableRetry ==
    [][/\ RetransmitStep
          => /\ BatchNumbers(outBatch') \subseteq DueBefore
             /\ Len(outBatch') = Cardinality(BatchNumbers(outBatch'))
             /\ Cardinality(DueBefore) - Len(outBatch')
                   = client'.totalDropped - client.totalDropped
             /\ DOMAIN client'.window = DOMAIN client.window
             /\ \A s \in BatchNumbers(outBatch') :
                   /\ client'.window[s].sendTime = now
                   /\ client'.window[s].attempts = client.window[s].attempts + 1
                   /\ client'.window[s].sequenceNumber = s
             /\ \A s \in DOMAIN client.window \ DueBefore :
                   client'.window[s] = client.window[s]
       /\ mainPc = "retransmitWrite" /\ mainPc' # mainPc /\ ~serverClosed
          => c2s' = Append(c2s, outBatch)]_vars

\* C15's case: a due packet has just been put in the batch and restamped,
\* next to a packet that was not due and is as it was
C15_Witness ==
    /\ lastTick.kind = "retransmit"
    /\ \E s \in BatchNumbers(lastTick.resent) :
          /\ client.window[s].sendTime = now
          /\ client.window[s].attempts = 2
    /\ \E u \in DOMAIN client.window \ lastTick.due :
          /\ client.window[u].attempts = 1
          /\ client.window[u].sendTime < now

(***************************************************************************)
(* processAcks applied to one line, on a Client that has sent its first    *)
(* batch and has processed none, some or all of its acknowledgments.       *)
(***************************************************************************)
\* the first batch with the first send attempt dropped
FirstBatchDropped ==
    sendNewPackets(NewClient(0), [i \in 1 .. minWindowSize |-> IF i = 1 THEN 0 ELSE 99], 0)

ClientSamples ==
    { NewClient(0),
      FirstBatch.c,
      FirstBatchDropped.c,
      processAcks(FirstBatch.c, <<Num(0)>>, 1),
      processAcks(FirstBatch.c, <<Num(1)>>, 1),
      processAcks(FirstBatch.c, <<Num(1), Num(0)>>, 1),
      processAcks(FirstBatch.c, FirstBatch.batch, 1) }

AckLines ==
    PeerLines \cup { <<Num(0)>>, <<Num(1)>>, <<Num(5)>>, <<Num(0), Num(0)>>, <<Num(-1)>>, <<Word, Word>>,
                     <<Padded(1)>> }

NotApplied == [applied |-> FALSE]

InitAcks ==
    /\ SenderIdle
    /\ TrackerIdle
    /\ fnIn \in [c : ClientSamples, acks : AckLines, t : 1 .. MaxTime]
    /\ fnOut = NotApplied

\* client.processAcks(acks)
ApplyProcessAcks ==
    /\ fnOut = NotApplied
    /\ fnOut' = [applied |-> TRUE, c |-> processAcks(fnIn.c, fnIn.acks, fnIn.t)]
    /\ UNCHANGED <<senderVars, tracker, fed, trackerBefore, fnIn>>

SpecAcks == InitAcks /\ [][ApplyProcessAcks]_vars

\* processAcks has been applied to a line with one token, a number
OneAckApplied ==
    fnOut.applied /\ Len(fnIn.acks) = 1 /\ Atoi(fnIn.acks[1]).ok

RECURSIVE RecordAll(_, _)
RecordAll(st, nums) ==
    IF nums = <<>> THEN st ELSE RecordAll(recordPacket(st, Head(nums)), Tail(nums))

\* the numbers handleConnection reads in a line
RecordedNumbers(line) ==
    [i \in 1 .. Len(RecordedTokens(line)) |-> Atoi(TrimSpace(RecordedTokens(line)[i])).val]

\* the ACK goroutine has just come back from processAcks
AcksProcessed == ackPc = "process" /\ ackPc' = "scan"

\* C17: a token that does not parse as a number is skipped, in a data line by
\* the receiver and in an ACK line by the sender, without any change of
\* state: the tracker, and the Client, end up as if the line held only its
\* tokens that parse, all of which are processed, before and after the
\* malformed one; neither side closes the connection or leaves its loop.
C17_MalformedTokenSkipped ==
    [][/\ Recorded
          => /\ tracker' = RecordAll(tracker, RecordedNumbers(recvLine'))
             /\ tracker'.receivedCount
                   = tracker.receivedCount + Len(RecordedTokens(recvLine'))
       /\ AcksProcessed
          => /\ client' = processAcks(client, NumericTokens(ackLine), now)
             /\ DOMAIN client'.window
                   = DOMAIN client.window \ BatchNumbers(NumericTokens(ackLine))
             /\ NumericTokens(ackLine) = <<>> => client' = client
       /\ ~serverClosed' /\ ~clientClosed'
       /\ recvPc' # "closed" /\ ackPc' \in {"scan", "process"}]_vars

\* C17's case: the receiver has recorded the numbers on both sides of a
\* malformed token, and the sender, on the echo of that line, has removed
\* both from its window, before its own first batch has reached the receiver
C17_Witness ==
    /\ ackPc = "scan"
    /\ acked = 2
    /\ WindowLen(client) = 0
    /\ client.windowStart = 2
    /\ tracker.receivedCount = 2
    /\ tracker.lastGap = 1
    /\ c2s = <<FirstBatch.batch>>


\* a token that denotes a sequence number, an integer of [0, 65536)
InSequenceSpace(tok) == Atoi(TrimSpace(tok)).ok /\ Atoi(TrimSpace(tok)).val \in 0 .. maxSequenceNumber - 1

\* the numbers of a data line that are sequence numbers
SequenceNumbers(line) ==
    LET toks == SelectSeq(line, InSequenceSpace)
    IN  [i \in 1 .. Len(toks) |-> Atoi(TrimSpace(toks[i])).val]

\* C18: tokens are parsed as unsigned 16-bit sequence numbers: a numeric token
\* outside [0, 65536) is skipped like a malformed one, so that the tracker
\* records only the sequence numbers of a line, processAcks acts only on the
\* sequence numbers of an ACK line, and the tracker's lastSeq is -1 (no packet
\* yet) or a number of [0, 65536).  (The code parses with strconv.Atoi, which
\* accepts every integer: the statement fails.)
C18_TokensAreUint16 ==
    [][/\ Recorded => tracker' = RecordAll(tracker, SequenceNumbers(recvLine'))
       /\ AcksProcessed
             => client' = processAcks(client, SelectSeq(NumericTokens(ackLine), InSequenceSpace), now)
       /\ tracker'.lastSeq \in -1 .. maxSequenceNumber - 1]_vars


\* the control loop is in, or blocked in, a conn.Write
InStreamWrite == mainPc \in {"sendWrite", "retransmitWrite", "finishWrite"}

\* C19: the sender's lock is never held during a blocking stream write: in
\* every reachable state in which the control loop is in the write of a data
\* batch, of a retransmission batch or of the FINISH line, the lock is free
\* for the ACK goroutine to take.  (sendNewPackets writes before its deferred
\* Unlock, and the report case writes FINISH and sleeps before its Unlock:
\* the statement fails.)
C19_NoLockAcrossWrite == InStreamWrite => mu = "free"


(***************************************************************************)
(* The same system under the scheduling the Go runtime gives it: a         *)
(* goroutine that can take its next step does take it (the ACK goroutine's *)
(* Scan, the control loop's writes, sleep and return), and a select picks  *)
(* at random among its ready cases, so that a case that is ready at        *)
(* select after select is taken in the end (case <-done).                  *)
(***************************************************************************)
SpecLive ==
    /\ Init
    /\ [][Next]_vars
    /\ WF_vars(AckScan)
    /\ WF_vars(MainSendWrite)
    /\ WF_vars(MainRetransmitWrite)
    /\ WF_vars(MainFinishWrite)
    /\ WF_vars(MainSleep)
    /\ WF_vars(MainReturn)
    /\ SF_vars(MainDone)

\* the inbound ACK stream is closed and holds no more lines
AckStreamEnded == serverClosed /\ s2c = <<>>

\* the ACK goroutine is at, or past, done <- true
Signalled == ackPc \in {"signal", "ended"}

\* the control loop, at its select, starts a batch of new packets or a
\* retransmission batch
StartsBatch == mainPc = "select" /\ mainPc' \in {"sendWrite", "retransmitWrite"}

\* C20 as stated: when the inbound ACK stream is closed or yields no more
\* lines the ACK goroutine signals the control loop, and the control loop
\* then terminates in the end, without starting a further batch.
C20_ExitWithoutFurtherBatch ==
    /\ (AckStreamEnded /\ ackPc = "scan") ~> (Signalled \/ mainPc = "exited")
    /\ (ackPc = "signal") ~> (mainPc = "exited")
    /\ [][Signalled => ~StartsBatch]_vars

\* C20: the ACK goroutine signals only when the inbound ACK stream is closed
\* and holds no more lines, and under fair scheduling it does signal then
\* (unless the control loop has left first); once it has signalled, the
\* control loop terminates in the end.  Until its select takes the signal,
\* the control loop may still start batches.
C20_SignalThenExit ==
    /\ [][ackPc # "signal" /\ ackPc' = "signal" => AckStreamEnded]_vars
    /\ (AckStreamEnded /\ ackPc = "scan") ~> (Signalled \/ mainPc = "exited")
    /\ (ackPc = "signal") ~> (mainPc = "exited")

\* C20's case: the server has closed, the ACK goroutine has signalled and
\* the control loop has taken the signal and left, after sending packets
C20_Witness ==
    /\ serverClosed
    /\ ackPc = "ended"
    /\ mainPc = "exited"
    /\ client.totalSent > 0


(***************************************************************************)
(* The handshake of new_client.go's main, against a server that answers    *)
(* the greeting with some line: the line "network", the scan of the reply, *)
(* then the tickers, the ACK goroutine and the control loop's first ticks  *)
(* (the server has not yet read a data line).                              *)
(***************************************************************************)
NetworkLine == << [kind |-> "word", val |-> 1] >>
SuccessLine == << [kind |-> "word", val |-> 2] >>

\* what a server may answer: success, some other text, a number
ReplyLines == {SuccessLine, <<Word>>, <<Num(0)>>}

\* after net.Dial and NewClient
InitHandshake ==
    /\ cfg = GeneralConfig
    /\ now = 0
    /\ client = NewClient(0)
    /\ mu = "free"
    /\ mainPc = "hello"
    /\ outBatch = <<>>
    /\ ackPc = "idle"
    /\ ackLine = <<>>
    /\ c2s = <<>>
    /\ s2c = <<>>
    /\ clientClosed = FALSE
    /\ serverClosed = FALSE
    /\ recvPc = "hello"
    /\ recvLine = <<>>
    /\ written = [s \in {} |-> 0]
    /\ acked = 0
    /\ lastTick = NoTick
    /\ TrackerIdle
    /\ FnIdle

\* conn.Write([]byte("network\n"))
MainHello ==
    /\ mainPc = "hello"
    /\ Len(c2s) < StreamCap
    /\ c2s' = Append(c2s, NetworkLine)
    /\ mainPc' = "helloScan"
    /\ lastTick' = NoTick
    /\ UNCHANGED <<cfg, client, mu, outBatch, ackPc, ackLine, now, s2c,
                   clientClosed, serverClosed, tracker, recvPc, recvLine, written,
                   acked, fed, trackerBefore, fnIn, fnOut>>

\* the server reads the greeting and writes its reply
PeerReply ==
    /\ recvPc = "hello"
    /\ c2s # <<>>
    /\ c2s' = Tail(c2s)
    /\ \E reply \in ReplyLines : s2c' = Append(s2c, reply)
    /\ recvPc' = "scan"
    /\ lastTick' = NoTick
    /\ UNCHANGED <<cfg, client, mu, mainPc, outBatch, ackPc, ackLine, now,
                   clientClosed, serverClosed, tracker, recvLine, written, acked,
                   fed, trackerBefore, fnIn, fnOut>>

\* if !scanner.Scan() { return }; the tickers; go func() { ... }: the line
\* scanned stays the scanner's text, and nothing looks at it
MainHelloScan ==
    /\ mainPc = "helloScan"
    /\ s2c # <<>> \/ serverClosed
    /\ IF s2c # <<>>
       THEN /\ ackLine' = Head(s2c)
            /\ s2c' = Tail(s2c)
            /\ mainPc' = "select"
            /\ ackPc' = "scan"
            /\ UNCHANGED clientClosed
       ELSE /\ mainPc' = "exited"
            /\ clientClosed' = TRUE
            /\ UNCHANGED <<ackLine, s2c, ackPc>>
    /\ lastTick' = NoTick
    /\ UNCHANGED <<cfg, client, mu, outBatch, now, c2s, serverClosed, tracker,
                   recvPc, recvLine, written, acked, fed, trackerBefore, fnIn,
                   fnOut>>

NextHandshake ==
    \/ MainHello
    \/ PeerReply
    \/ MainHelloScan
    \/ Tick
    \/ MainSend
    \/ MainSendWrite
    \/ MainAdjust

SpecHandshake == InitHandshake /\ [][NextHandshake]_vars

\* C21: the sender transmits data only if the server's reply to "network" is
\* exactly the line success: after any other reply the connection ends with
\* no data line written, so whenever a sequence number has been written the
\* reply scanned was success.  (new_client.go tests only that a reply line
\* arrived: the statement fails.)
C21_DataOnlyAfterSuccess == TotalWrites > 0 => ackLine = SuccessLine


\* the tracker has reached server1.go's targetPackets
TargetReached == tracker.receivedCount >= serverTargetPackets

\* C22: once receivedCount has reached the target, handleConnection leaves
\* its loop and closes the connection without needing a further input line,
\* and writes no ACK: from a state in which the target is reached, no step
\* takes a line from the client's stream and no step puts a line on the
\* server's.  (The target is tested only after the next Scan has returned a
\* line, and the line that reached the target is acknowledged first: the
\* statement fails.)
C22_StopsAtTarget ==
    [][TargetReached => Len(s2c') <= Len(s2c) /\ Len(c2s') >= Len(c2s)]_vars


\* handleConnection takes the line FINISH from the stream
FinishArrives == recvPc = "scan" /\ c2s # <<>> /\ Head(c2s) = FinishLine /\ c2s' = Tail(c2s)

\* C23: when the line FINISH arrives at the receiver, the per-connection loop
\* terminates and the connection is closed, the line is not recorded as a
\* packet, and nothing is written to the stream once the sentinel has been
\* recognised.  (server1.go has no test for FINISH: the line is a line of one
\* malformed token, it is echoed and the loop goes on: the statement fails.)
C23_FinishEndsLoop ==
    [][/\ FinishArrives => recvPc' = "closed" /\ serverClosed' /\ tracker' = tracker
       /\ recvPc = "closed" => s2c' = s2c \/ Len(s2c') < Len(s2c)]_vars


(***************************************************************************)
(* The dropped-list sender (cmd/client/main_rewrite.go, the text from line *)
(* 320 on; src/unnamed/part_000 holds the same Client).  One ticker of     *)
(* 50 ms drives handleRetransmissions and then sendWindow, so the clock    *)
(* advances by one unit per tick.  The sequence space and the window are   *)
(* read from the run's configuration; the program's own values are 65536   *)
(* and 1000, and as there the space is no multiple of the window.          *)
(***************************************************************************)
\* stand-ins for maxSequenceNumber, slidingWindowSize and targetPackets
SmallSequenceSpace == 5
SmallSlidingWindow == 2
RewriteTarget == 12

\* no packet is dropped any more once totalDropped has reached this
RewriteMaxDropped == 2

RewriteConfig ==
    [maxSequenceNumber |-> SmallSequenceSpace, slidingWindowSize |-> SmallSlidingWindow,
     dropProbability |-> defaultDropProbability, targetPackets |-> RewriteTarget,
     serverTargetPackets |-> defaultServerTarget, randSamples |-> {1, 99}]

\* the receiver reaches its target before the sender does
RewriteServerStopsConfig == [RewriteConfig EXCEPT !.serverTargetPackets = SmallServerTarget]

sequenceSpace == cfg.maxSequenceNumber
slidingWindowSize == cfg.slidingWindowSize

\* NewClient of main_rewrite.go
NewRewriteClient ==
    [sentPackets |-> [s \in {} |-> 0], droppedPackets |-> [s \in {} |-> 0],
     totalSent |-> 0, totalDropped |-> 0, currentSequence |-> 0, wrapCount |-> 0]

\* the entries cleanupOldPackets leaves in one of the two maps
KeepWrapped(packets, wrapCount) ==
    [s \in {u \in DOMAIN packets : ~(~packets[u].wrapped /\ wrapCount > 0)} |-> packets[s]]

cleanupOldPackets(c) ==
    [c EXCEPT !.sentPackets = KeepWrapped(c.sentPackets, c.wrapCount),
              !.droppedPackets = KeepWrapped(c.droppedPackets, c.wrapCount)]

\* the dropped packets the scan of main_rewrite.go finds due
DueDropped(c, t) ==
    {s \in DOMAIN c.droppedPackets : t - c.droppedPackets[s].sendTime >= retransmitAfter}

\* one visit of that scan's loop body, for a due packet
RetryDroppedOne(c, seq, r, t) ==
    LET packet == c.droppedPackets[seq]
    IN  IF Deliverable(r)
        THEN [c EXCEPT !.droppedPackets = Delete(c.droppedPackets, seq),
                       !.sentPackets = Put(c.sentPackets, seq, [packet EXCEPT !.sendTime = t])]
        ELSE [c EXCEPT !.droppedPackets[seq].attempts = @ + 1,
                       !.droppedPackets[seq].sendTime = t,
                       !.totalDropped = @ + 1]

RECURSIVE RetryDroppedLoop(_, _, _, _, _, _)
RetryDroppedLoop(c, retransmitSeqs, order, i, draws, t) ==
    IF i > Len(order) THEN [c |-> c, batch |-> retransmitSeqs]
    ELSE LET seq == order[i]
         IN  RetryDroppedLoop(RetryDroppedOne(c, seq, draws[seq], t),
                              IF Deliverable(draws[seq])
                              THEN Append(retransmitSeqs, Itoa(seq)) ELSE retransmitSeqs,
                              order, i + 1, draws, t)

\* handleRetransmissions of main_rewrite.go, up to its conn.Write
retransmitDropped(c, order, draws, t) == RetryDroppedLoop(c, <<>>, order, 1, draws, t)

\* the wrap-around test at the head of sendWindow
CrossesMaximum(c) == c.currentSequence + slidingWindowSize > sequenceSpace

\* sendWindow's wrap-around step: wrapCount++, cleanupOldPackets
WrapAround(c) ==
    IF CrossesMaximum(c) THEN cleanupOldPackets([c EXCEPT !.wrapCount = @ + 1]) ELSE c

windowEnd(c) == min(c.currentSequence + slidingWindowSize, sequenceSpace)

\* how many passes sendWindow's loop makes
Allocations(c) == max(0, min(windowEnd(c) - c.currentSequence, targetPackets - c.totalSent))

\* one pass of sendWindow's loop body for i
AllocateOne(c, i, r, t) ==
    LET seq == i % sequenceSpace
        packet == [sequenceNumber |-> seq, sendTime |-> t, attempts |-> 1,
                   wrapped |-> c.wrapCount > 0]
        c1 == IF Deliverable(r)
              THEN [c EXCEPT !.sentPackets = Put(c.sentPackets, seq, packet)]
              ELSE [c EXCEPT !.droppedPackets = Put(c.droppedPackets, seq, packet),
                             !.totalDropped = @ + 1]
    IN  [c1 EXCEPT !.totalSent = @ + 1]

RECURSIVE AllocateLoop(_, _, _, _, _)
AllocateLoop(c, sequenceNumbers, k, draws, t) ==
    IF k > Len(draws) THEN [c |-> c, batch |-> sequenceNumbers]
    ELSE LET i == c.currentSequence + k - 1
         IN  AllocateLoop(AllocateOne(c, i, draws[k], t),
                          IF Deliverable(draws[k])
                          THEN Append(sequenceNumbers, Itoa(i % sequenceSpace))
                          ELSE sequenceNumbers,
                          k + 1, draws, t)

\* sendWindow up to its conn.Write; draws: one rand.Float64() per pass
sendWindow(c, draws, t) == AllocateLoop(WrapAround(c), <<>>, 1, draws, t)


\* after the handshake of main_rewrite.go: NewClient, the ticker, the ACK
\* goroutine started
InitRewrite ==
    /\ cfg \in {RewriteConfig, RewriteServerStopsConfig}
    /\ now = 0
    /\ client = NewRewriteClient
    /\ mu = "free"
    /\ mainPc = "select"
    /\ outBatch = <<>>
    /\ ackPc = "scan"
    /\ ackLine = <<>>
    /\ c2s = <<>>
    /\ s2c = <<>>
    /\ clientClosed = FALSE
    /\ serverClosed = FALSE
    /\ recvPc = "scan"
    /\ recvLine = <<>>
    /\ written = [s \in {} |-> 0]
    /\ acked = 0
    /\ lastTick = NoTick
    /\ TrackerIdle
    /\ FnIdle

\* a tick may drop packets only while totalDropped stays within the bound
WithinDropBound(c, c1) == c1.totalDropped > c.totalDropped => c1.totalDropped <= RewriteMaxDropped

\* case <-ticker.C: handleRetransmissions, up to its conn.Write
RewriteTick ==
    /\ mainPc = "select"
    /\ mu = "free"
    /\ client.totalSent < targetPackets
    /\ now' = now + 1
    /\ \E order \in Orders(DueDropped(client, now + 1)) :
       \E draws \in [DueDropped(client, now + 1) -> cfg.randSamples] :
         LET r == retransmitDropped(client, order, draws, now + 1)
         IN  /\ WithinDropBound(client, r.c)
             /\ client' = r.c
             /\ outBatch' = r.batch
             /\ mainPc' = IF r.batch = <<>> THEN "sendWindow" ELSE "retransmitWrite"
             /\ mu' = IF r.batch = <<>> THEN "free" ELSE "main"
    /\ lastTick' = NoTick
    /\ UNCHANGED <<cfg, ackPc, ackLine, c2s, s2c, clientClosed, serverClosed,
                   tracker, recvPc, recvLine, written, acked, fed, trackerBefore,
                   fnIn, fnOut>>

\* handleRetransmissions' conn.Write, whose error is printed and ignored,
\* then the deferred Unlock
RewriteRetransmitWrite ==
    /\ mainPc = "retransmitWrite"
    /\ IF serverClosed THEN UNCHANGED <<c2s, written>>
       ELSE /\ Len(c2s) < StreamCap
            /\ c2s' = Append(c2s, outBatch)
            /\ written' = CountWrites(written, outBatch)
    /\ mu' = "free"
    /\ mainPc' = "sendWindow"
    /\ outBatch' = <<>>
    /\ lastTick' = NoTick
    /\ UNCHANGED <<cfg, client, ackPc, ackLine, now, s2c, clientClosed,
                   serverClosed, tracker, recvPc, recvLine, acked, fed,
                   trackerBefore, fnIn, fnOut>>

\* c.currentSequence = windowEnd % maxSequenceNumber
Advance(c) == [c EXCEPT !.currentSequence = windowEnd(c) % sequenceSpace]

\* sendWindow, up to its conn.Write
RewriteSendWindow ==
    /\ mainPc = "sendWindow"
    /\ mu = "free"
    /\ \E draws \in [1 .. Allocations(client) -> cfg.randSamples] :
         LET r == sendWindow(client, draws, now)
         IN  /\ WithinDropBound(client, r.c)
             /\ client' = IF r.batch = <<>> THEN Advance(r.c) ELSE r.c
             /\ outBatch' = r.batch
             /\ mainPc' = IF r.batch = <<>> THEN "select" ELSE "sendWrite"
             /\ mu' = IF r.batch = <<>> THEN "free" ELSE "main"
    /\ lastTick' = NoTick
    /\ UNCHANGED <<cfg, ackPc, ackLine, now, c2s, s2c, clientClosed, serverClosed,
                   tracker, recvPc, recvLine, written, acked, fed, trackerBefore,
                   fnIn, fnOut>>

\* sendWindow's conn.Write: on an error sendWindow returns it and main
\* returns; else currentSequence moves on; then the deferred Unlock
RewriteSendWrite ==
    /\ mainPc = "sendWrite"
    /\ IF serverClosed
       THEN \E ok \in BOOLEAN :
               /\ mainPc' = IF ok THEN "select" ELSE "exited"
               /\ clientClosed' = ~ok
               /\ client' = IF ok THEN Advance(client) ELSE client
               /\ UNCHANGED <<c2s, written>>
       ELSE /\ Len(c2s) < StreamCap
            /\ c2s' = Append(c2s, outBatch)
            /\ written' = CountWrites(written, outBatch)
            /\ client' = Advance(client)
            /\ mainPc' = "select"
            /\ UNCHANGED clientClosed
    /\ mu' = "free"
    /\ outBatch' = <<>>
    /\ lastTick' = NoTick
    /\ UNCHANGED <<cfg, ackPc, ackLine, now, s2c, serverClosed, tracker, recvPc,
                   recvLine, acked, fed, trackerBefore, fnIn, fnOut>>

\* the loop condition fails: the final statistics, return, conn.Close()
RewriteFinish ==
    /\ mainPc = "select"
    /\ mu = "free"
    /\ client.totalSent >= targetPackets
    /\ mainPc' = "exited"
    /\ clientClosed' = TRUE
    /\ lastTick' = NoTick
    /\ UNCHANGED <<cfg, client, mu, outBatch, ackPc, ackLine, now, c2s, s2c,
                   serverClosed, tracker, recvPc, recvLine, written, acked, fed,
                   trackerBefore, fnIn, fnOut>>

\* case <-done
RewriteDone ==
    /\ mainPc = "select"
    /\ client.totalSent < targetPackets
    /\ ackPc = "signal"
    /\ ackPc' = "ended"
    /\ mainPc' = "exited"
    /\ clientClosed' = TRUE
    /\ lastTick' = NoTick
    /\ UNCHANGED <<cfg, client, mu, outBatch, ackLine, now, c2s, s2c, serverClosed,
                   tracker, recvPc, recvLine, written, acked, fed, trackerBefore,
                   fnIn, fnOut>>

\* delete(client.sentPackets, seq) for every token that parses
RECURSIVE DeleteAcked(_, _)
DeleteAcked(packets, acks) ==
    IF acks = <<>> THEN packets
    ELSE LET a == Atoi(Head(acks))
         IN  DeleteAcked(IF a.ok THEN Delete(packets, a.val) ELSE packets, Tail(acks))

\* the body of the ACK goroutine's loop, under client.mu
RewriteAckProcess ==
    /\ mainPc # "exited"
    /\ ackPc = "process"
    /\ mu = "free"
    /\ client' = [client EXCEPT !.sentPackets = DeleteAcked(client.sentPackets, ackLine)]
    /\ acked' = acked + Len(NumericTokens(ackLine))
    /\ ackPc' = "scan"
    /\ ackLine' = <<>>
    /\ lastTick' = NoTick
    /\ UNCHANGED <<cfg, mu, mainPc, outBatch, now, c2s, s2c, clientClosed,
                   serverClosed, tracker, recvPc, recvLine, written, fed,
                   trackerBefore, fnIn, fnOut>>

NextRewrite ==
    \/ RewriteTick
    \/ RewriteRetransmitWrite
    \/ RewriteSendWindow
    \/ RewriteSendWrite
    \/ RewriteFinish
    \/ RewriteDone
    \/ AckScan
    \/ RewriteAckProcess
    \/ RecvScan
    \/ RecvAck

SpecRewrite == InitRewrite /\ [][NextRewrite]_vars


\* sendWindow has just run, up to its conn.Write
SendWindowStep == mainPc = "sendWindow" /\ mainPc' # "sendWindow"

\* the entries of a map that a step has left as they were
Surviving(before, after) ==
    {s \in DOMAIN before \cap DOMAIN after : after[s] = before[s]}

\* C24: every time sendWindow's allocation crosses the sequence-space
\* maximum, at the first wrap and at every later one, wrapCount is
\* incremented and every packet entry created before that wrap is removed
\* from sentPackets and droppedPackets: no entry survives a call of
\* sendWindow that wraps.  (cleanupOldPackets removes the entries whose
\* wrapped flag is false, and every entry created after the first wrap has
\* it true: the statement fails from the second wrap on.)
C24_EveryWrapPurges ==
    [][SendWindowStep /\ CrossesMaximum(client)
          => /\ client'.wrapCount = client.wrapCount + 1
             /\ Surviving(client.sentPackets, client'.sentPackets) = {}
             /\ Surviving(client.droppedPackets, client'.droppedPackets) = {}]_vars


\* the sequence numbers a call of sendWindow allocates
AllocatedNow ==
    {(client.currentSequence + k) % sequenceSpace :
        k \in 0 .. (client'.totalSent - client.totalSent) - 1}

\* the sequence numbers that have an entry in the sender's bookkeeping
InFlight(c) == DOMAIN c.sentPackets \cup DOMAIN c.droppedPackets

\* C25: whenever the sender allocates a sequence number, its in-flight
\* bookkeeping holds no entry for that number left over from an earlier
\* epoch: after the wrap-around step of a call of sendWindow, no number the
\* call allocates has an entry in sentPackets or droppedPackets.  (Entries
\* of the second and later epochs are never purged, see C24, and a new
\* packet overwrites them or stands beside them: the statement fails.)
C25_NoStaleEntryAtReuse ==
    [][SendWindowStep => AllocatedNow \cap InFlight(WrapAround(client)) = {}]_vars


(***************************************************************************)
(* new_client.go and server1.go at the first wrap of the sequence space:   *)
(* the state after WrapStart packets, all delivered and acknowledged, with *)
(* target counts beyond the wrap (as the program's 500_000 is).            *)
(***************************************************************************)
\* packets sent and acknowledged before the run starts
WrapStart == 65534

NearWrapConfig ==
    [GeneralConfig EXCEPT !.targetPackets = WrapStart + SmallTarget,
                          !.serverTargetPackets = 1000000]

NearWrapServerStopsConfig ==
    [NearWrapConfig EXCEPT !.serverTargetPackets = WrapStart + SmallServerTarget]

InitNearWrap ==
    /\ \E config \in {NearWrapConfig, NearWrapServerStopsConfig} : cfg = config
    /\ now = 0
    /\ client = [NewClient(0) EXCEPT !.nextSequence = WrapStart, !.totalSent = WrapStart,
                                     !.windowStart = WrapStart % maxSequenceNumber]
    /\ mu = "free"
    /\ mainPc = "select"
    /\ outBatch = <<>>
    /\ ackPc = "scan"
    /\ ackLine = <<>>
    /\ c2s = <<>>
    /\ s2c = <<>>
    /\ clientClosed = FALSE
    /\ serverClosed = FALSE
    /\ recvPc = "scan"
    /\ recvLine = <<>>
    /\ written = [s \in {} |-> 0]
    /\ acked = 0
    /\ lastTick = NoTick
    /\ tracker = [lastSeq |-> (WrapStart - 1) % maxSequenceNumber, wrapCount |-> 0,
                  receivedCount |-> WrapStart, missingCount |-> 0, lastGap |-> 1]
    /\ fed = <<>>
    /\ trackerBefore = newSimpleTracker
    /\ FnIdle

SpecNearWrap == InitNearWrap /\ [][Next]_vars

\* the sequence numbers of the attempts a step makes, in the order it makes them
AttemptNumbers ==
    [j \in 1 .. client'.nextSequence - client.nextSequence
        |-> Itoa((client.nextSequence + j - 1) % maxSequenceNumber)]

\* the step has put a new packet in flight under this number
PutInFlight(tok) ==
    /\ tok.val \in DOMAIN client'.window
    /\ client'.window[tok.val] = [sequenceNumber |-> tok.val, sendTime |-> now, attempts |-> 1]

\* C26: the sender allocates sequence numbers in forward cyclic order: the
\* k-th allocation attempt, counting from 0, dropped or delivered, uses the
\* number k mod 65536.  The next-sequence pointer equals the count of
\* attempts and never moves backward; a step that makes attempts puts
\* exactly the delivered ones in its batch, in the order of the attempts and
\* under the numbers k mod 65536, and in flight under those numbers.
C26_ForwardCyclicOrder ==
    [][/\ client'.nextSequence = client'.totalSent
       /\ client'.nextSequence >= client.nextSequence
       /\ client'.nextSequence > client.nextSequence
             => /\ outBatch' = SelectSeq(AttemptNumbers, PutInFlight)
                /\ Len(AttemptNumbers) - Len(outBatch')
                      = client'.totalDropped - client.totalDropped]_vars

\* C26's case: the attempts 65535 and 65536 were both delivered, under the
\* numbers 65535 and 0, and written
C26_Witness ==
    /\ client.nextSequence > maxSequenceNumber
    /\ {0, maxSequenceNumber - 1} \subseteq DOMAIN client.window
    /\ {0, maxSequenceNumber - 1} \subseteq DOMAIN written


(***************************************************************************)
(* SpecLive with a receiver that keeps serving: handleConnection takes its *)
(* next step when it can, and the ACK goroutine gets client.mu when it is  *)
(* free again and again (sync.Mutex hands the lock to a starving waiter).  *)
(***************************************************************************)
SpecLiveEcho ==
    /\ SpecLive
    /\ WF_vars(RecvScan)
    /\ WF_vars(RecvAck)
    /\ SF_vars(AckProcess)

\* C27: a packet put in the in-flight map has a bounded lifetime: while the
\* connection stays open and the receiver echoes, every entry of the map is
\* removed in the end; an entry is in the map until it is removed, or until
\* one of the two ends has closed.  (sendNewPackets and the FINISH path hold
\* client.mu across their conn.Write, see C19: with the two streams full the
\* control loop, the receiver and the ACK goroutine wait for one another and
\* the entry stays for ever: the statement fails.)
C27_BoundedLifetime ==
    \A s \in 0 .. SmallTarget :
       (s \in DOMAIN client.window)
          ~> (s \notin DOMAIN client.window \/ serverClosed \/ clientClosed)


(***************************************************************************)
(* SpecLiveEcho with tickers that keep firing: a select that finds the     *)
(* send case, or the report case, ready again and again takes it in the    *)
(* end.                                                                    *)
(***************************************************************************)
SpecFair ==
    /\ SpecLiveEcho
    /\ SF_vars(MainSend)
    /\ SF_vars(MainReport)

\* C28: under fair scheduling, with a receiver that echoes every data line
\* and a drop probability below 1, the control loop reaches
\* totalSent >= targetPackets in the end and then terminates, having written
\* its termination line.  (With the two streams full the control loop waits
\* in a write under client.mu, see C19, for a receiver that waits for the
\* ACK goroutine, which waits for the lock: the statement fails.)
C28_EventuallyComplete ==
    (cfg = GeneralConfig) => <>(client.totalSent >= targetPackets /\ mainPc = "exited")


\* the packets a step takes out of droppedPackets without putting them in
\* the batch it is about to write
DiscardedUnsent == (DOMAIN client.droppedPackets \ DOMAIN client'.droppedPackets) \ BatchNumbers(outBatch')

\* C29: in the dropped-list sender every packet that was simulated as
\* dropped is retransmitted in the end: it stays in droppedPackets until a
\* tick puts it in the batch it writes, and it is never discarded unsent,
\* neither by cleanupOldPackets nor by the sender finishing.  (The first
\* wrap's cleanupOldPackets deletes the dropped packets whose retry is not
\* yet due, and main leaves its loop as soon as totalSent reaches the
\* target: the statement fails.)
C29_DroppedNeverDiscarded ==
    [][/\ DiscardedUnsent = {}
       /\ mainPc' = "exited" /\ client'.totalSent >= targetPackets
             => DOMAIN client'.droppedPackets = {}]_vars


(***************************************************************************)
(* Two connections served at once.  Both servers start one goroutine per   *)
(* accepted connection (`go handleConnection(conn)`).  In server1.go the   *)
(* handler creates its own SimpleTracker; in the Server of the second      *)
(* server program every handler works on the one ServerStats the Server    *)
(* was built with.  Here tracker[c] is the tracker of connection c's       *)
(* handler, fed is the Server's stats object, mu is the set of handlers    *)
(* that hold the stats' mutex (none or one connection), and c2s, s2c,      *)
(* clientClosed, recvPc and recvLine hold one value per connection.        *)
(***************************************************************************)
Conns == {1, 2}

\* report stats every 1000 packets
reportInterval == 1000

\* lines a client writes: a batch with a gap, a batch with a malformed token
\* and a number with blanks around it, and the finish message
ConnLines ==
    { <<Num(1), Num(3)>>, <<Word, Padded(0)>>, FinishLine }

NewServerStats ==
    [receivedPackets |-> 0, missingPackets |-> 0, lastSequence |-> -1,
     packetsInInterval |-> 0]

\* Server.handleSequence(seq), from Lock to the deferred Unlock
handleSequence(stats, seq) ==
    LET gap == seq - stats.lastSequence - 1
        interval == stats.packetsInInterval + 1
    IN  [receivedPackets   |-> stats.receivedPackets + 1,
         missingPackets    |-> IF stats.lastSequence # -1 /\ gap > 0
                               THEN stats.missingPackets + gap
                               ELSE stats.missingPackets,
         lastSequence      |-> seq,
         packetsInInterval |-> IF interval >= reportInterval THEN 0 ELSE interval]

PrivateTrackerConfig ==
    [program |-> "server1", serverTargetPackets |-> SmallServerTarget]

SharedStatsConfig ==
    [program |-> "server", serverTargetPackets |-> SmallServerTarget]

\* both connections accepted and past the handshake, nothing received yet
InitServers ==
    /\ cfg \in {PrivateTrackerConfig, SharedStatsConfig}
    /\ tracker = [c \in Conns |-> newSimpleTracker]
    /\ fed = NewServerStats
    /\ c2s = [c \in Conns |-> <<>>]
    /\ s2c = [c \in Conns |-> <<>>]
    /\ clientClosed = [c \in Conns |-> FALSE]
    /\ recvPc = [c \in Conns |-> "scan"]
    /\ recvLine = [c \in Conns |-> <<>>]
    /\ serverClosed = FALSE
    /\ client = <<>>
    /\ mu = {}
    /\ mainPc = "idle"
    /\ outBatch = <<>>
    /\ ackPc = "idle"
    /\ ackLine = <<>>
    /\ now = 0
    /\ written = [s \in {} |-> 0]
    /\ acked = 0
    /\ lastTick = NoTick
    /\ trackerBefore = newSimpleTracker
    /\ FnIdle

\* what the two-connection actions leave alone
serversUnchanged ==
    UNCHANGED <<cfg, client, mainPc, outBatch, ackPc, ackLine, now,
                serverClosed, written, acked, lastTick, trackerBefore,
                fnIn, fnOut>>

\* the client of connection c writes a line
PeerWrite(c) ==
    /\ ~clientClosed[c]
    /\ recvPc[c] # "closed"
    /\ Len(c2s[c]) < StreamCap
    /\ \E line \in ConnLines : c2s' = [c2s EXCEPT ![c] = Append(@, line)]
    /\ UNCHANGED <<s2c, clientClosed, tracker, fed, recvPc, recvLine, mu>>
    /\ serversUnchanged

\* the client of connection c reads an acknowledgement line
PeerRead(c) ==
    /\ ~clientClosed[c]
    /\ s2c[c] # <<>>
    /\ s2c' = [s2c EXCEPT ![c] = Tail(@)]
    /\ UNCHANGED <<c2s, clientClosed, tracker, fed, recvPc, recvLine, mu>>
    /\ serversUnchanged

\* the client of connection c closes its end
PeerClose(c) ==
    /\ ~clientClosed[c]
    /\ clientClosed' = [clientClosed EXCEPT ![c] = TRUE]
    /\ UNCHANGED <<c2s, s2c, tracker, fed, recvPc, recvLine, mu>>
    /\ serversUnchanged

\* server1.go: scanner.Scan(), the target test, and the loop over the
\* line's parts, on the handler's own tracker
PrivateScan(c) ==
    /\ cfg.program = "server1"
    /\ recvPc[c] = "scan"
    /\ c2s[c] # <<>> \/ clientClosed[c]
    /\ IF c2s[c] = <<>>
       THEN /\ recvPc' = [recvPc EXCEPT ![c] = "closed"]
            /\ UNCHANGED <<c2s, tracker, recvLine>>
       ELSE /\ c2s' = [c2s EXCEPT ![c] = Tail(@)]
            /\ IF tracker[c].receivedCount >= serverTargetPackets
               THEN /\ recvPc' = [recvPc EXCEPT ![c] = "closed"]
                    /\ UNCHANGED <<tracker, recvLine>>
               ELSE /\ tracker' = [tracker EXCEPT ![c] = RecordLine(@, Head(c2s[c]))]
                    /\ recvLine' = [recvLine EXCEPT ![c] = Head(c2s[c])]
                    /\ recvPc' = [recvPc EXCEPT ![c] = "ack"]
    /\ UNCHANGED <<s2c, clientClosed, fed, mu>>
    /\ serversUnchanged

\* the second server: scanner.Scan() and strings.Split(line, ",")
SharedScan(c) ==
    /\ cfg.program = "server"
    /\ recvPc[c] = "scan"
    /\ c2s[c] # <<>> \/ clientClosed[c]
    /\ IF c2s[c] = <<>>
       THEN /\ recvPc' = [recvPc EXCEPT ![c] = "closed"]
            /\ UNCHANGED <<c2s, recvLine>>
       ELSE /\ c2s' = [c2s EXCEPT ![c] = Tail(@)]
            /\ recvLine' = [recvLine EXCEPT ![c] =
                               [line |-> Head(c2s[c]), parts |-> Head(c2s[c])]]
            /\ recvPc' = [recvPc EXCEPT ![c] = "sequences"]
    /\ UNCHANGED <<s2c, clientClosed, tracker, fed, mu>>
    /\ serversUnchanged

\* one pass of `for _, seqStr := range sequences`: continue at a malformed
\* part, else enter s.handleSequence(seq) and take s.stats.mu
SharedSequence(c) ==
    /\ recvPc[c] = "sequences"
    /\ IF recvLine[c].parts = <<>>
       THEN /\ recvPc' = [recvPc EXCEPT ![c] = "ack"]
            /\ UNCHANGED <<mu, recvLine>>
       ELSE IF Atoi(TrimSpace(Head(recvLine[c].parts))).ok
            THEN /\ mu = {}
                 /\ mu' = {c}
                 /\ recvPc' = [recvPc EXCEPT ![c] = "locked"]
                 /\ UNCHANGED recvLine
            ELSE /\ recvLine' = [recvLine EXCEPT ![c].parts = Tail(@)]
                 /\ UNCHANGED <<mu, recvPc>>
    /\ UNCHANGED <<c2s, s2c, clientClosed, tracker, fed>>
    /\ serversUnchanged

\* the body of s.handleSequence(seq) and the deferred Unlock
SharedUpdate(c) ==
    /\ recvPc[c] = "locked"
    /\ mu = {c}
    /\ fed' = handleSequence(fed, Atoi(TrimSpace(Head(recvLine[c].parts))).val)
    /\ mu' = {}
    /\ recvLine' = [recvLine EXCEPT ![c].parts = Tail(@)]
    /\ recvPc' = [recvPc EXCEPT ![c] = "sequences"]
    /\ UNCHANGED <<c2s, s2c, clientClosed, tracker>>
    /\ serversUnchanged

\* conn.Write([]byte(ackMsg)) of either server: blocks while the stream is
\* full; once the client has closed, the write either fails or is lost
ConnAck(c) ==
    /\ recvPc[c] = "ack"
    /\ LET next == IF cfg.program = "server1" THEN "scan" ELSE "check"
       IN  IF clientClosed[c]
           THEN /\ \E ok \in BOOLEAN :
                      recvPc' = [recvPc EXCEPT ![c] = IF ok THEN next ELSE "closed"]
                /\ UNCHANGED s2c
           ELSE /\ Len(s2c[c]) < StreamCap
                /\ s2c' = [s2c EXCEPT ![c] =
                              Append(@, IF cfg.program = "server1" THEN recvLine[c]
                                        ELSE recvLine[c].line)]
                /\ recvPc' = [recvPc EXCEPT ![c] = next]
    /\ recvLine' = IF cfg.program = "server1" THEN [recvLine EXCEPT ![c] = <<>>]
                   ELSE recvLine
    /\ UNCHANGED <<c2s, clientClosed, tracker, fed, mu>>
    /\ serversUnchanged

\* what a handler can read in s.stats.receivedPackets without the mutex:
\* the stored value, or, while another handler is inside handleSequence,
\* the value that handler is about to store
UnlockedReads == {fed.receivedPackets} \cup {fed.receivedPackets + 1 : d \in mu}

\* the second server's tests after the write: the finish message, then the
\* target against the Server's stats, read without the mutex
SharedCheck(c) ==
    /\ recvPc[c] = "check"
    /\ \E seen \in IF recvLine[c].line = FinishLine THEN {0} ELSE UnlockedReads :
          recvPc' = [recvPc EXCEPT ![c] =
                        IF recvLine[c].line = FinishLine \/ seen >= serverTargetPackets
                        THEN "final" ELSE "scan"]
    /\ recvLine' = [recvLine EXCEPT ![c] = <<>>]
    /\ UNCHANGED <<c2s, s2c, clientClosed, tracker, fed, mu>>
    /\ serversUnchanged

\* s.printFinalStats(), from Lock to the deferred Unlock, and the return
SharedFinal(c) ==
    /\ recvPc[c] = "final"
    /\ mu = {}
    /\ recvPc' = [recvPc EXCEPT ![c] = "closed"]
    /\ UNCHANGED <<c2s, s2c, clientClosed, tracker, fed, recvLine, mu>>
    /\ serversUnchanged

NextServers ==
    \E c \in Conns :
       \/ PeerWrite(c)
       \/ PeerRead(c)
       \/ PeerClose(c)
       \/ PrivateScan(c)
       \/ SharedScan(c)
       \/ SharedSequence(c)
       \/ SharedUpdate(c)
       \/ ConnAck(c)
       \/ SharedCheck(c)
       \/ SharedFinal(c)

SpecServers == InitServers /\ [][NextServers]_vars

\* the handler of connection c takes a step
HandlerStep(c) ==
    /\ recvPc[c] # "closed"
    /\ <<recvPc[c], recvLine[c]>>' # <<recvPc[c], recvLine[c]>>

\* the counters the handler of connection c works on and reports
Observed(c) ==
    IF cfg.program = "server1"
    THEN [receivedCount |-> tracker[c].receivedCount,
          missingCount  |-> tracker[c].missingCount,
          lastSeq       |-> tracker[c].lastSeq,
          wrapCount     |-> tracker[c].wrapCount]
    ELSE [receivedCount |-> fed.receivedPackets,
          missingCount  |-> fed.missingPackets,
          lastSeq       |-> fed.lastSequence,
          wrapCount     |-> 0]

\* C30: a step of one connection's handler never changes the received
\* count, missing count, wrap count or last sequence number that the
\* handler of the other, concurrently served connection observes
C30_TrackerPrivate ==
    [][\A c \in Conns : \A d \in Conns \ {c} :
          HandlerStep(c) => Observed(d)' = Observed(d)]_vars

\* the same, of server1.go's handlers only
PrivateTrackersStayPrivate ==
    [][cfg.program = "server1"
          => \A c \in Conns : \A d \in Conns \ {c} :
                HandlerStep(c) => Observed(d)' = Observed(d)]_vars


(***************************************************************************)
(* windowStart after processAcks (new_client.go).  The field is declared   *)
(* as `windowStart int // Lowest unacked sequence number`.                 *)
(***************************************************************************)
\* how many allocations ago the number k was last allocated
Age(c, k) == (c.nextSequence - 1 - k) % maxSequenceNumber

\* the key of the oldest in-flight entry, in cyclic allocation order
OldestInFlight(c) ==
    CHOOSE k \in DOMAIN c.window :
       \A u \in DOMAIN c.window : Age(c, u) <= Age(c, k)

\* a call of client.processAcks returns
ProcessAcksReturns == ackPc = "process" /\ ackPc' = "scan"

\* C31: after every processAcks call windowStart is the lowest
\* unacknowledged sequence number: the key of the oldest in-flight entry
\* when there is one, and otherwise the next number to allocate, never a
\* number already acknowledged or never put in flight
C31_WindowStartLowestUnacked ==
    [][ProcessAcksReturns
          => IF DOMAIN client'.window # {}
             THEN client'.windowStart = OldestInFlight(client')
             ELSE client'.windowStart = client'.nextSequence % maxSequenceNumber]_vars


(***************************************************************************)
(* Deadlock of the composed system: the control loop, the ACK goroutine    *)
(* and the receiver's handler, each waiting for the next.                  *)
(***************************************************************************)
\* the control loop is inside sendNewPackets' conn.Write, the stream is full
SenderBlockedWritingBatch ==
    mainPc = "sendWrite" /\ Len(c2s) >= StreamCap /\ ~serverClosed

\* the ACK goroutine is inside processAcks' c.mu.Lock(), the lock is taken
AckReaderBlockedOnMutex == ackPc = "process" /\ mu # "free"

\* the handler is inside its conn.Write of the ACK line, the stream is full
ReceiverBlockedWritingAck ==
    recvPc = "ack" /\ Len(s2c) >= StreamCap /\ ~clientClosed

\* stand-ins for targetPackets and for server1.go's targetPackets in the run
\* that lets a backlog build up in both streams
BacklogTarget == 5
BacklogServerTarget == 4

BacklogConfig ==
    [minWindowSize |-> SmallMinWindow, maxWindowSize |-> SmallMaxWindow,
     dropProbability |-> defaultDropProbability, targetPackets |-> BacklogTarget,
     serverTargetPackets |-> BacklogServerTarget, randSamples |-> {1, 99}]

\* after the handshake, one tick of the clock before time 0, so that
\* packets sent at two different times both become due for retransmission
InitBacklog ==
    /\ cfg = BacklogConfig
    /\ now = -1
    /\ client = NewClient(-1)
    /\ mu = "free"
    /\ mainPc = "select"
    /\ outBatch = <<>>
    /\ ackPc = "scan"
    /\ ackLine = <<>>
    /\ c2s = <<>>
    /\ s2c = <<>>
    /\ clientClosed = FALSE
    /\ serverClosed = FALSE
    /\ recvPc = "scan"
    /\ recvLine = <<>>
    /\ written = [s \in {} |-> 0]
    /\ acked = 0
    /\ lastTick = NoTick
    /\ TrackerIdle
    /\ FnIdle

SpecBacklog == InitBacklog /\ [][Next]_vars

\* C32: the sender blocked writing a batch, the ACK reader blocked waiting
\* for the mutex and the receiver blocked writing an ACK never occur all at
\* once
C32_NoThreeWayBlock ==
    ~(SenderBlockedWritingBatch /\ AckReaderBlockedOnMutex /\ ReceiverBlockedWritingAck)


(***************************************************************************)
(* The sender's counters (new_client.go).                                  *)
(***************************************************************************)
\* C33: the total-packet budget is never exceeded and every allocation is
\* counted exactly once: totalSent <= targetPackets, and totalSent is the
\* number of sequence numbers allocated so far, delivered or dropped
C33_BudgetCountsAllocations ==
    /\ client.totalSent <= targetPackets
    /\ client.totalSent = client.nextSequence

\* the budget is used up, by packets put in flight and by dropped ones
C33_Witness ==
    /\ client.totalSent = targetPackets
    /\ client.totalDropped > 0
    /\ WindowLen(client) > 0
    /\ TotalWrites > 0


\* a window of one packet: while the packet is unacknowledged the window is
\* full and sendNewPackets admits nothing
NarrowWindowConfig ==
    [GeneralConfig EXCEPT !.minWindowSize = 1, !.maxWindowSize = 1,
                          !.serverTargetPackets = SmallServerTarget]

InitNarrow == Connected(NarrowWindowConfig) /\ TrackerIdle /\ FnIdle

SpecNarrow == InitNarrow /\ [][Next]_vars

\* C34: totalDropped never exceeds totalSent, so the reported goodput
\* (totalSent - totalDropped) / totalSent lies between 0 and 1 once
\* totalSent > 0
C34_DroppedAtMostSent == client.totalDropped <= client.totalSent


\* C35: windowSize stays within [minWindowSize, maxWindowSize] under every
\* interleaving of adjustWindow with the other sender operations, and a
\* step that changes windowSize changes nothing else of the sender or of
\* the connection
C35_WindowSizeWithinBounds ==
    /\ client.windowSize \in minWindowSize .. maxWindowSize
    /\ [][/\ client'.windowSize \in minWindowSize .. maxWindowSize
          /\ client'.windowSize # client.windowSize
                => /\ client' = [client EXCEPT !.windowSize = client'.windowSize]
                   /\ UNCHANGED <<mu, mainPc, outBatch, c2s, s2c, written,
                                  clientClosed>>]_vars

\* the size has grown to the maximum while a packet is in flight
C35_Witness ==
    /\ minWindowSize < maxWindowSize
    /\ client.windowSize = maxWindowSize
    /\ WindowLen(client) > 0


(***************************************************************************)
(* A SimpleTracker fed a strictly forward stream: a first number, then     *)
(* each number ahead of the one before by a gap of at most half the space. *)
(***************************************************************************)
\* how far a number lies ahead of the one before: the successor, one and
\* many skipped numbers, and the largest gap below half the space
ForwardGaps == {1, 2, 1000, 32767}

FeedStart == fed = <<>> /\ Record(SeqSamples)

FeedForward ==
    /\ fed # <<>>
    /\ Len(fed) < MaxCalls
    /\ Record({(fed[Len(fed)] + d) % maxSequenceNumber : d \in ForwardGaps})

NextForward == FeedStart \/ FeedForward

SpecForward == InitTracker /\ [][NextForward]_vars

\* the cyclic span from the first number of a stream to its last, inclusive
RECURSIVE CyclicSpan(_)
CyclicSpan(stream) ==
    IF Len(stream) <= 1 THEN Len(stream)
    ELSE CyclicSpan(SubSeq(stream, 1, Len(stream) - 1))
            + ((stream[Len(stream)] - stream[Len(stream) - 1]) % maxSequenceNumber)

\* C36: for a strictly forward stream, after every call receivedCount +
\* missingCount is the cyclic span from the first recorded number to the
\* last, inclusive, so missingCount is the number of skipped numbers,
\* across wraparound too
C36_CountsCoverSpan ==
    /\ tracker.receivedCount = Len(fed)
    /\ tracker.receivedCount + tracker.missingCount = CyclicSpan(fed)
    /\ tracker.missingCount = CyclicSpan(fed) - Len(fed)

\* numbers were skipped on both sides of a wraparound
C36_Witness ==
    /\ fed = <<65534, 0, 2, 1002>>
    /\ tracker.wrapCount = 1
    /\ tracker.missingCount = 1 + 1 + 999


(***************************************************************************)
(* The locking discipline of the shared ServerStats.                       *)
(***************************************************************************)
\* the handler of connection c reads s.stats.receivedPackets for its target
\* test
ReadsStats(c) ==
    /\ recvPc[c] = "check"
    /\ recvLine[c].line # FinishLine
    /\ recvPc'[c] # "check"

\* the handler of connection c writes the stats' counters
WritesStats(c) == recvPc[c] = "locked" /\ fed' # fed

\* C37: every read and write of the ServerStats counters happens with the
\* stats mutex held by the handler that makes it, and no handler reads a
\* counter while another handler is updating it
C37_StatsOnlyUnderMutex ==
    [][\A c \in Conns :
          /\ WritesStats(c) => mu = {c}
          /\ ReadsStats(c) => mu = {c}]_vars


(***************************************************************************)
(* The cumulative-ACK receiver (handleConnection of the single-connection  *)
(* server).  A line is its first word and the parts after it; tracker is   *)
(* the handler's receivedPackets map, as the set of its keys, and lastAck; *)
(* trackerBefore is the same before the last SEQ message was taken.        *)
(***************************************************************************)
\* sequence numbers a client puts in a SEQ message
CumNumbers == {-1, 0, 1, 2, 3, 4}

SeqLine(parts) == [head |-> "SEQ", parts |-> parts]
PlainLine(word) == [head |-> word, parts |-> <<>>]
AckReply(k) == [head |-> "ACK", parts |-> <<Num(k)>>]

\* what a client writes: the greeting, the finish message, SEQ with a
\* number, SEQ without a number, SEQ with a malformed number, anything else
CumLines ==
    {PlainLine("network"), PlainLine("finish"), PlainLine("hello"),
     SeqLine(<<>>), SeqLine(<<Word>>)}
       \cup {SeqLine(<<Num(n)>>) : n \in CumNumbers}

\* receivedPackets := make(map[int]bool); lastAck := 0
NewCumulativeReceiver == [receivedPackets |-> {}, lastAck |-> 0]

\* ContiguousAck that takes one step at most
ContiguousAckOneStep(received, lastAck) ==
    IF lastAck + 1 \in received THEN lastAck + 1 ELSE lastAck

\* for receivedPackets[lastAck+1] { lastAck++ }
RECURSIVE ContiguousAck(_, _)
ContiguousAck(received, lastAck) ==
    IF lastAck + 1 \in received THEN ContiguousAck(received, lastAck + 1)
    ELSE lastAck

InitCumulative ==
    /\ tracker = NewCumulativeReceiver
    /\ trackerBefore = NewCumulativeReceiver
    /\ c2s = <<>>
    /\ s2c = <<>>
    /\ clientClosed = FALSE
    /\ serverClosed = FALSE
    /\ recvPc = "scan"
    /\ recvLine = <<>>
    /\ cfg = GeneralConfig
    /\ client = <<>>
    /\ mu = "free"
    /\ mainPc = "idle"
    /\ outBatch = <<>>
    /\ ackPc = "idle"
    /\ ackLine = <<>>
    /\ now = 0
    /\ written = [s \in {} |-> 0]
    /\ acked = 0
    /\ lastTick = NoTick
    /\ fed = <<>>
    /\ FnIdle

cumulativeUnchanged ==
    UNCHANGED <<cfg, client, mu, mainPc, outBatch, ackPc, ackLine, now, written,
                acked, lastTick, fed, fnIn, fnOut>>

\* the client writes a line
CumPeerWrite ==
    /\ ~clientClosed
    /\ ~serverClosed
    /\ Len(c2s) < StreamCap
    /\ \E line \in CumLines : c2s' = Append(c2s, line)
    /\ UNCHANGED <<s2c, clientClosed, serverClosed, tracker, trackerBefore,
                   recvPc, recvLine>>
    /\ cumulativeUnchanged

\* the client reads a reply
CumPeerRead ==
    /\ ~clientClosed
    /\ s2c # <<>>
    /\ s2c' = Tail(s2c)
    /\ UNCHANGED <<c2s, clientClosed, serverClosed, tracker, trackerBefore,
                   recvPc, recvLine>>
    /\ cumulativeUnchanged

\* the client closes its end
CumPeerClose ==
    /\ ~clientClosed
    /\ clientClosed' = TRUE
    /\ UNCHANGED <<c2s, s2c, serverClosed, tracker, trackerBefore, recvPc,
                   recvLine>>
    /\ cumulativeUnchanged

\* scanner.Scan() and the switch, up to the conn.Write of the case taken
CumScan ==
    /\ recvPc = "scan"
    /\ c2s # <<>> \/ clientClosed
    /\ IF c2s = <<>>
       THEN /\ recvPc' = "closed"
            /\ serverClosed' = TRUE
            /\ UNCHANGED <<c2s, tracker, trackerBefore, recvLine>>
       ELSE LET data == Head(c2s)
                a == IF data.parts = <<>> THEN [ok |-> FALSE, val |-> 0]
                     ELSE Atoi(data.parts[1])
            IN  /\ c2s' = Tail(c2s)
                /\ UNCHANGED serverClosed
                /\ IF data.head = "network"
                   THEN /\ recvLine' = PlainLine("success")
                        /\ recvPc' = "write"
                        /\ UNCHANGED <<tracker, trackerBefore>>
                   ELSE IF data.head = "finish"
                   THEN /\ recvLine' = PlainLine("goodbye")
                        /\ recvPc' = "write"
                        /\ UNCHANGED <<tracker, trackerBefore>>
                   ELSE IF data.head = "SEQ" /\ a.ok
                   THEN LET received == tracker.receivedPackets \cup {a.val}
                            ack == ContiguousAck(received, tracker.lastAck)
                        IN  /\ tracker' = [receivedPackets |-> received,
                                           lastAck |-> ack]
                            /\ trackerBefore' = tracker
                            /\ recvLine' = AckReply(ack)
                            /\ recvPc' = "write"
                   ELSE UNCHANGED <<tracker, trackerBefore, recvLine, recvPc>>
    /\ UNCHANGED <<s2c, clientClosed>>
    /\ cumulativeUnchanged

\* conn.Write of the reply, its error ignored: blocks while the stream is
\* full, is lost once the client has closed; after goodbye the handler
\* returns
CumWrite ==
    /\ recvPc = "write"
    /\ IF clientClosed THEN UNCHANGED s2c
       ELSE Len(s2c) < StreamCap /\ s2c' = Append(s2c, recvLine)
    /\ recvPc' = IF recvLine = PlainLine("goodbye") THEN "closed" ELSE "scan"
    /\ serverClosed' = (recvLine = PlainLine("goodbye"))
    /\ recvLine' = <<>>
    /\ UNCHANGED <<c2s, clientClosed, tracker, trackerBefore>>
    /\ cumulativeUnchanged

NextCumulative ==
    CumPeerWrite \/ CumPeerRead \/ CumPeerClose \/ CumScan \/ CumWrite

SpecCumulative == InitCumulative /\ [][NextCumulative]_vars

\* the highest k such that every number from 1, the first number of the
\* stream, up to k is in S
HighestContiguous(S) ==
    LET K == {k \in 0 .. Cardinality(S) : \A i \in 1 .. k : i \in S}
    IN  CHOOSE k \in K : \A j \in K : j <= k

\* C38: after each valid SEQ n the value sent in ACK k is the highest k such
\* that every sequence number from the start of the stream (1, lastAck
\* being 0 before anything is received) up to k has been received; the ACK
\* values sent never decrease; no number is cumulatively acknowledged
\* before it has been received
C38_CumulativeAck ==
    [][recvPc' = "write" /\ recvLine'.head = "ACK"
          => /\ recvLine' = AckReply(tracker'.lastAck)
             /\ tracker'.lastAck = HighestContiguous(tracker'.receivedPackets)
             /\ tracker'.lastAck >= tracker.lastAck
             /\ 1 .. tracker'.lastAck \subseteq tracker'.receivedPackets]_vars

\* a SEQ message has filled a gap: the ACK about to be sent moves from 1 to 3
C38_Witness ==
    /\ recvPc = "write"
    /\ recvLine = AckReply(3)
    /\ trackerBefore.lastAck = 1
    /\ tracker.receivedPackets = {0, 1, 2, 3}

====
